---- MODULE Spec2Model ----
(***************************************************************************)
(* Bi-temporal measurement store of the CDSS core: the Measurements table, *)
(* the Record Service operations of backend/businesslogic.py               *)
(* (insert_measurement, update_measurement, delete_measurement) and the    *)
(* History Query (search_history).                                         *)
(*                                                                         *)
(* Time is counted in ticks (one tick = one second of the ISO strings the  *)
(* store keeps); a calendar day is DayLen ticks long.  A datetime argument *)
(* is a pair <<kind, n>>:                                                  *)
(*   <<"none", 0>>     argument omitted (None or '')                       *)
(*   <<"date", d>>     date only, 'YYYY-MM-DD', day d                      *)
(*   <<"dt", t>>       'YYYY-MM-DD HH:MM:SS', tick t (the stored format)   *)
(*   <<"dtshort", t>>  the same instant written in another accepted        *)
(*                     format, e.g. 'YYYY-MM-DD HH:MM'                     *)
(*   <<"bad", 0>>      a string pandas cannot parse                        *)
(***************************************************************************)
EXTENDS Integers, Sequences, FiniteSets, TLC

VARIABLES rows, patients, now, lastCall, abstracted, absRun, mediatorCall, ruleCall

vars == <<rows, patients, now, lastCall, abstracted, absRun, mediatorCall, ruleCall>>

\* The Measurements / Patients side and the abstraction / rule side.
storeVars == <<rows, patients, now, lastCall>>

engineVars == <<abstracted, absRun, mediatorCall, ruleCall>>

\* ------------------------------------------------------------------ bounds
MaxTime == 2
MaxRows == 2
DayLen == 2

\* ------------------------------------------------------- values and inputs
SqlNull == -1
NoMatch == -2
PyNone == "<None>"

Times == 0..MaxTime

PatientIds == {"P1", "P2"}
InitialPatients == {"P1"}

Values == {"10", "11"}
Units == {"u1", "u2"}

Falsy(x) == x = PyNone \/ x = ""

Str(x) == IF x = PyNone THEN "None" ELSE x

CleanOpt(x) == IF Falsy(x) THEN PyNone ELSE x

\* ------------------------------------------------------------ LOINC table
LoincTable ==
    [ L1 |-> [Component |-> "glucose",
              AllowedValues |-> [kind |-> "NUM", list |-> {}]],
      L2 |-> [Component |-> "glucose urine",
              AllowedValues |-> [kind |-> "list", list |-> {"10", "11"}]] ]

LoincCodes == DOMAIN LoincTable

ComponentLike(component, dictComponent) ==
    \/ component = dictComponent
    \/ component = "glucose" /\ dictComponent = "glucose urine"

check_loinc(loinc_num) == loinc_num \in LoincCodes

get_loinc_by_component_from_loinc(component) ==
    {l \in LoincCodes : ComponentLike(component, LoincTable[l].Component)}

get_loinc_allowed_values(loinc_num) ==
    IF loinc_num \in LoincCodes
    THEN LoincTable[loinc_num].AllowedValues
    ELSE [kind |-> "none", list |-> {}]

IsNumeric(value) == value \in {"10", "11"}

validate_value(value, allowed) ==
    IF allowed.kind = "none" THEN TRUE
    ELSE IF allowed.kind = "NUM" THEN IsNumeric(value)
    ELSE value \in allowed.list

\* --------------------------------------------------------------- datetimes
CanParse(d) == d[1] \in {"date", "dt", "dtshort"}

validate_datetime(d) == IF d[1] = "date" THEN d[2] * DayLen ELSE d[2]

IsDateOnly(d) == d[1] = "date"

EndOfDay(d) == d[2] * DayLen + (DayLen - 1)

DayOf(t) == t \div DayLen

RawSqlTime(d) == IF d[1] = "dt" THEN d[2] ELSE NoMatch

\* ------------------------------------------------------ Measurements table
Row(p, l, v, u, vst, tit, tdt) ==
    [PatientId |-> p, LoincNum |-> l, Value |-> v, Unit |-> u,
     ValidStartTime |-> vst, TransactionInsertionTime |-> tit,
     TransactionDeletionTime |-> tdt]

SameKey(r, p, l, vst) ==
    r.PatientId = p /\ r.LoincNum = l /\ r.ValidStartTime = vst

Visible(r, S) ==
    /\ r.TransactionInsertionTime <= S
    /\ (r.TransactionDeletionTime = SqlNull \/ r.TransactionDeletionTime > S)

check_patient_by_id(patient_id) == patient_id \in patients

check_record(p, l, vst, T) ==
    \E i \in DOMAIN rows : SameKey(rows[i], p, l, vst) /\ Visible(rows[i], T)

check_future_record(p, l, vst, T) ==
    \E i \in DOMAIN rows :
        SameKey(rows[i], p, l, vst) /\ rows[i].TransactionInsertionTime > T

get_existing_unit(p, l, vst) ==
    {rows[i].Unit : i \in {j \in DOMAIN rows : SameKey(rows[j], p, l, vst)}}

get_loinc_by_component_from_measurements(component, p, vst, T) ==
    {rows[i].LoincNum : i \in {j \in DOMAIN rows :
        /\ rows[j].PatientId = p
        /\ rows[j].ValidStartTime = vst
        /\ Visible(rows[j], T)
        /\ rows[j].LoincNum \in LoincCodes
        /\ ComponentLike(component, LoincTable[rows[j].LoincNum].Component)}}

update_record_deletion_time(rs, p, l, vst, T) ==
    [i \in DOMAIN rs |->
        IF SameKey(rs[i], p, l, vst) /\ Visible(rs[i], T)
        THEN [rs[i] EXCEPT !.TransactionDeletionTime = T]
        ELSE rs[i]]

insert_measurement_sql(rs, p, l, v, u, vst, T) ==
    Append(rs, Row(p, l, v, u, vst, T, SqlNull))

\* ----------------------------------------------------------- Record Service
\* The store calls the handlers make, with the arguments they pass.

\* insert_measurement: the row "already exists" when CHECK_RECORD_QUERY finds
\* one for (patient_id, loinc_num, valid_start_time, transaction_time).
record_already_exists_Unchecked(patient_id, loinc_num, valid_start_time, transaction_time) ==
    FALSE

record_already_exists(patient_id, loinc_num, valid_start_time, transaction_time) ==
    check_record(patient_id, loinc_num, valid_start_time, transaction_time)

\* update_measurement / delete_measurement: RecordNotFound when
\* CHECK_RECORD_QUERY finds no row at the transaction time.
record_not_found_Unchecked(patient_id, loinc_num, valid_start_time, transaction_time) ==
    FALSE

record_not_found(patient_id, loinc_num, valid_start_time, transaction_time) ==
    ~check_record(patient_id, loinc_num, valid_start_time, transaction_time)

\* update_measurement / delete_measurement: future_record_date is truthy.
future_record_date_Unchecked(patient_id, loinc_num, valid_start_time, transaction_time) ==
    FALSE

future_record_date(patient_id, loinc_num, valid_start_time, transaction_time) ==
    check_future_record(patient_id, loinc_num, valid_start_time, transaction_time)

\* update_measurement / delete_measurement: "Update end time on older
\* records", one committed execute_query.
\* The stamp applied to every row of the key, closed ones included.
close_older_records_AllVersions(rs, patient_id, loinc_num, valid_start_time, transaction_time) ==
    [i \in DOMAIN rs |->
        IF SameKey(rs[i], patient_id, loinc_num, valid_start_time)
        THEN [rs[i] EXCEPT !.TransactionDeletionTime = transaction_time]
        ELSE rs[i]]

close_older_records_Skipped(rs, patient_id, loinc_num, valid_start_time, transaction_time) ==
    rs

close_older_records(rs, patient_id, loinc_num, valid_start_time, transaction_time) ==
    update_record_deletion_time(rs, patient_id, loinc_num, valid_start_time,
                                transaction_time)

Outcome(result, rs, p, l, vst, T) ==
    [result |-> result, rows |-> rs, PatientId |-> p, LoincNum |-> l,
     ValidStartTime |-> vst, T |-> T]

\* A rejection raised only after the older rows were closed.
Rejected_AfterStamp(result, p, l, vst, T) ==
    Outcome(result, close_older_records(rows, p, l, vst, T), p, l, vst, T)

Rejected(result, p, l, vst, T) == Outcome(result, rows, p, l, vst, T)

NowOr(d) == IF d[1] = "none" THEN <<"dt", now>> ELSE d

\* Concept resolution of insert_measurement: the matching codes come from the
\* LOINC dictionary.  Yields <<error, loinc_num>>, error = "" when resolved.
resolve_insert(component, loinc_num) ==
    LET matching == get_loinc_by_component_from_loinc(component) IN
    IF loinc_num # PyNone /\ component # PyNone THEN
        IF matching = {} THEN <<"UnknownComponent", loinc_num>>
        ELSE IF loinc_num \notin matching THEN <<"LoincMismatch", loinc_num>>
        ELSE <<"", loinc_num>>
    ELSE IF component # PyNone THEN
        IF matching = {} THEN <<"UnknownComponent", loinc_num>>
        ELSE IF Cardinality(matching) > 1 THEN <<"AmbiguousComponent", loinc_num>>
        ELSE <<"", CHOOSE l \in matching : TRUE>>
    ELSE IF ~check_loinc(loinc_num) THEN <<"LoincCodeNotFound", loinc_num>>
    ELSE <<"", loinc_num>>

insert_measurement(patient_id, valid_start_time, value, unit, component, loinc_num, transaction_time, fail) ==
    LET loinc0 == CleanOpt(loinc_num)
        comp0  == CleanOpt(component)
        tt     == NowOr(transaction_time)
        vst    == validate_datetime(valid_start_time)
        T      == validate_datetime(tt)
        res    == resolve_insert(comp0, loinc0)
        l      == res[2]
    IN
    IF Falsy(patient_id) \/ Falsy(value) \/ Falsy(unit)
          \/ valid_start_time[1] = "none"
          \/ (Falsy(component) /\ Falsy(loinc_num))
    THEN Rejected("InvalidInput", patient_id, loinc0, NoMatch, NoMatch)
    ELSE IF ~CanParse(valid_start_time) \/ ~CanParse(tt)
    THEN Rejected("InvalidInput", patient_id, loinc0, NoMatch, NoMatch)
    ELSE IF T < vst
    THEN Rejected("DateOrderViolation", patient_id, loinc0, vst, T)
    ELSE IF ~check_patient_by_id(patient_id)
    THEN Rejected("PatientNotFound", patient_id, loinc0, vst, T)
    ELSE IF res[1] # ""
    THEN Rejected(res[1], patient_id, loinc0, vst, T)
    ELSE IF ~validate_value(value, get_loinc_allowed_values(l))
    THEN Rejected("InvalidInput", patient_id, l, vst, T)
    ELSE IF record_already_exists(patient_id, l, vst, T)
    THEN Rejected("DuplicateInsert", patient_id, l, vst, T)
    ELSE IF fail = 1
    THEN Rejected("StoreError", patient_id, l, vst, T)
    ELSE Outcome("OK",
                 insert_measurement_sql(rows, patient_id, l, value, unit, vst, T),
                 patient_id, l, vst, T)

\* Concept resolution of update_measurement and delete_measurement: the
\* matching codes come from the patient's rows visible at T.
resolve_from_measurements(component, loinc_num, loincGiven, compGiven, patient_id, vst, T) ==
    LET matching ==
            get_loinc_by_component_from_measurements(component, patient_id, vst, T)
    IN
    IF loincGiven /\ compGiven THEN
        IF matching = {} THEN <<"UnknownComponent", loinc_num>>
        ELSE IF loinc_num \notin matching THEN <<"LoincMismatch", loinc_num>>
        ELSE <<"", loinc_num>>
    ELSE IF compGiven THEN
        IF matching = {} THEN <<"UnknownComponent", loinc_num>>
        ELSE IF Cardinality(matching) > 1 THEN <<"AmbiguousComponent", loinc_num>>
        ELSE <<"", CHOOSE l \in matching : TRUE>>
    ELSE IF loincGiven THEN
        IF ~check_loinc(loinc_num) THEN <<"LoincCodeNotFound", loinc_num>>
        ELSE <<"", loinc_num>>
    ELSE <<"InvalidInput", loinc_num>>

\* unit_pick: which of the lineage's units the unordered SELECT of
\* get_existing_unit.sql yields first.
update_measurement(patient_id, valid_start_time, new_value, component, loinc_num, transaction_time, fail, unit_pick) ==
    LET loinc0 == CleanOpt(loinc_num)
        comp0  == CleanOpt(component)
        tt     == NowOr(transaction_time)
        vst    == validate_datetime(valid_start_time)
        T      == validate_datetime(tt)
        res    == resolve_from_measurements(comp0, loinc0, loinc0 # PyNone,
                                            comp0 # PyNone, patient_id, vst, T)
        l      == res[2]
        units  == get_existing_unit(patient_id, l, vst)
        unit   == IF units = {} THEN Str(PyNone)
                  ELSE IF unit_pick \in units THEN unit_pick
                  ELSE CHOOSE u \in units : TRUE
        stamped == close_older_records(rows, patient_id, l, vst, T)
    IN
    IF Falsy(patient_id) \/ Falsy(new_value)
          \/ valid_start_time[1] = "none"
          \/ (Falsy(component) /\ Falsy(loinc_num))
    THEN Rejected("InvalidInput", patient_id, loinc0, NoMatch, NoMatch)
    ELSE IF ~CanParse(valid_start_time) \/ ~CanParse(tt)
    THEN Rejected("InvalidInput", patient_id, loinc0, NoMatch, NoMatch)
    ELSE IF T < vst
    THEN Rejected("DateOrderViolation", patient_id, loinc0, vst, T)
    ELSE IF ~check_patient_by_id(patient_id)
    THEN Rejected("PatientNotFound", patient_id, loinc0, vst, T)
    ELSE IF res[1] # ""
    THEN Rejected(res[1], patient_id, loinc0, vst, T)
    ELSE IF ~validate_value(new_value, get_loinc_allowed_values(l))
    THEN Rejected("InvalidInput", patient_id, l, vst, T)
    ELSE IF record_not_found(patient_id, l, vst, T)
    THEN Rejected("RecordNotFound", patient_id, l, vst, T)
    ELSE IF future_record_date(patient_id, l, vst, T)
    THEN Rejected("StaleUpdate", patient_id, l, vst, T)
    ELSE IF fail = 1
    THEN Rejected("StoreError", patient_id, l, vst, T)
    ELSE IF fail = 2
    THEN Outcome("StoreError", stamped, patient_id, l, vst, T)
    ELSE Outcome("OK",
                 insert_measurement_sql(stamped, patient_id, l, new_value,
                                        unit, vst, T),
                 patient_id, l, vst, T)

SetMax(S) == CHOOSE m \in S : \A x \in S : x <= m

\* get_latest_validtime_for_day.sql: the latest ValidStartTime on the given
\* date among the patient's rows visible at D; an identifier passed as ''
\* imposes no filter.
get_latest_validtime_for_day(p, day, D, loinc_num, component) ==
    LET cand == {rows[i].ValidStartTime : i \in {j \in DOMAIN rows :
                    /\ rows[j].PatientId = p
                    /\ DayOf(rows[j].ValidStartTime) = day
                    /\ Visible(rows[j], D)
                    /\ (loinc_num = "" \/ rows[j].LoincNum = loinc_num)
                    /\ \/ component = ""
                       \/ /\ rows[j].LoincNum \in LoincCodes
                          /\ ComponentLike(component,
                                 LoincTable[rows[j].LoincNum].Component)}}
    IN IF cand = {} THEN SqlNull ELSE SetMax(cand)

\* The ValidStartTime handed to the queries: a date-only input is replaced by
\* the latest ValidStartTime of that day, a date-time input goes in as typed.
target_valid_start_Midnight(patient_id, valid_start_time, D, loinc_num, component) ==
    IF IsDateOnly(valid_start_time)
    THEN IF get_latest_validtime_for_day(patient_id, valid_start_time[2], D,
                                         loinc_num, component) = SqlNull
         THEN SqlNull
         ELSE validate_datetime(valid_start_time)
    ELSE RawSqlTime(valid_start_time)

target_valid_start(patient_id, valid_start_time, D, loinc_num, component) ==
    IF IsDateOnly(valid_start_time)
    THEN get_latest_validtime_for_day(patient_id, valid_start_time[2], D,
                                      loinc_num, component)
    ELSE RawSqlTime(valid_start_time)

delete_measurement(patient_id, valid_start_time, loinc_num, component, deletion_time, fail) ==
    LET loinc0 == Str(loinc_num)
        comp0  == Str(component)
        dt     == NowOr(deletion_time)
        D      == validate_datetime(dt)
        latest == target_valid_start(patient_id, valid_start_time, D,
                                     loinc0, comp0)
        vstSql == latest
        vst    == IF IsDateOnly(valid_start_time) THEN latest
                  ELSE validate_datetime(valid_start_time)
        res    == resolve_from_measurements(comp0, loinc0, loinc0 # "",
                                            comp0 # "", patient_id, vstSql, D)
        l      == res[2]
    IN
    IF Falsy(patient_id) \/ valid_start_time[1] = "none"
          \/ (Falsy(component) /\ Falsy(loinc_num))
    THEN Rejected("InvalidInput", patient_id, loinc0, NoMatch, NoMatch)
    ELSE IF ~CanParse(dt) \/ ~CanParse(valid_start_time)
    THEN Rejected("InvalidInput", patient_id, loinc0, NoMatch, NoMatch)
    ELSE IF IsDateOnly(valid_start_time) /\ latest = SqlNull
    THEN Rejected("RecordNotFound", patient_id, loinc0, NoMatch, D)
    ELSE IF D < vst
    THEN Rejected("DateOrderViolation", patient_id, loinc0, vstSql, D)
    ELSE IF ~check_patient_by_id(patient_id)
    THEN Rejected("PatientNotFound", patient_id, loinc0, vstSql, D)
    ELSE IF res[1] # ""
    THEN Rejected(res[1], patient_id, loinc0, vstSql, D)
    ELSE IF record_not_found(patient_id, l, vstSql, D)
    THEN Rejected("RecordNotFound", patient_id, l, vstSql, D)
    ELSE IF future_record_date(patient_id, l, vstSql, D)
    THEN Rejected("StaleUpdate", patient_id, l, vstSql, D)
    ELSE IF fail = 1
    THEN Rejected("StoreError", patient_id, l, vstSql, D)
    ELSE Outcome("OK",
                 close_older_records(rows, patient_id, l, vstSql, D),
                 patient_id, l, vstSql, D)

\* ------------------------------------------------------------ History Query
NoTime == <<"none", 0>>

\* validate_dates_relation: "" when the pair is acceptable.
validate_dates_relation(early, later) ==
    IF early[1] = "none" \/ later[1] = "none" THEN ""
    ELSE IF ~CanParse(early) \/ ~CanParse(later) THEN "InvalidInput"
    ELSE IF validate_datetime(later) < validate_datetime(early)
    THEN "DateOrderViolation"
    ELSE ""

SnapshotInstant(snapshot_date) ==
    LET snap == NowOr(snapshot_date) IN
    IF IsDateOnly(snap) THEN EndOfDay(snap) ELSE validate_datetime(snap)

search_history_error(patient_id, snapshot_date, start, end) ==
    LET snap == NowOr(snapshot_date) IN
    IF Falsy(patient_id) THEN "InvalidInput"
    ELSE IF ~check_patient_by_id(patient_id) THEN "PatientNotFound"
    ELSE IF validate_dates_relation(start, end) # ""
    THEN validate_dates_relation(start, end)
    ELSE IF validate_dates_relation(start, snap) # ""
    THEN validate_dates_relation(start, snap)
    ELSE IF validate_dates_relation(end, snap) # ""
    THEN validate_dates_relation(end, snap)
    ELSE IF ~CanParse(snap) THEN "InvalidInput"
    ELSE ""

\* search_history with the TransactionDeletionTime fragment left out of the
\* WHERE clause.
search_history_NoDeletionFilter(patient_id, snapshot_date, loinc_num, component, start, end) ==
    LET S == SnapshotInstant(snapshot_date)
        endInstant == IF IsDateOnly(end) THEN EndOfDay(end)
                      ELSE validate_datetime(end)
    IN
    {i \in DOMAIN rows :
        /\ rows[i].LoincNum \in LoincCodes
        /\ rows[i].PatientId = patient_id
        /\ (Falsy(loinc_num) \/ rows[i].LoincNum = loinc_num)
        /\ \/ Falsy(component)
           \/ ComponentLike(component, LoincTable[rows[i].LoincNum].Component)
        /\ (start[1] = "none" \/ rows[i].ValidStartTime >= validate_datetime(start))
        /\ (end[1] = "none" \/ rows[i].ValidStartTime <= endInstant)
        /\ rows[i].TransactionInsertionTime <= S}

\* The rows (by MeasurementId) the composed query returns.
search_history(patient_id, snapshot_date, loinc_num, component, start, end) ==
    LET S == SnapshotInstant(snapshot_date)
        endInstant == IF IsDateOnly(end) THEN EndOfDay(end)
                      ELSE validate_datetime(end)
    IN
    {i \in DOMAIN rows :
        /\ rows[i].LoincNum \in LoincCodes
        /\ rows[i].PatientId = patient_id
        /\ (Falsy(loinc_num) \/ rows[i].LoincNum = loinc_num)
        /\ \/ Falsy(component)
           \/ ComponentLike(component, LoincTable[rows[i].LoincNum].Component)
        /\ (start[1] = "none" \/ rows[i].ValidStartTime >= validate_datetime(start))
        /\ (end[1] = "none" \/ rows[i].ValidStartTime <= endInstant)
        /\ rows[i].TransactionInsertionTime <= S
        /\ \/ rows[i].TransactionDeletionTime = SqlNull
           \/ rows[i].TransactionDeletionTime > S}

\* ------------------------------------------------------------------ inputs
DtArgs == {<<"dt", t>> : t \in Times}
DateArgs == {<<"date", d>> : d \in 0..DayOf(MaxTime)}
TimeArgs == {NoTime} \cup DtArgs \cup DateArgs
MainTimeArgs == {NoTime} \cup DtArgs
OddTimeArgs == {<<"dtshort", 0>>, <<"bad", 0>>}
ValidStartArgs == {<<"dt", 0>>, <<"dt", 1>>}

ConceptArgs ==
    { <<PyNone, "L1">>, <<"", "L2">>, <<"glucose urine", PyNone>>,
      <<"glucose", "L1">>, <<"glucose urine", "L2">>, <<"glucose", "">>,
      <<"insulin", PyNone>>, <<PyNone, "L9">>, <<"glucose urine", "L1">>,
      <<"", "">> }

MainConcepts ==
    { <<PyNone, "L1">>, <<"", "L1">>, <<"glucose", "L1">>, <<"glucose", "">> }

\* The log entry of a call: what it was and how it returned, with the
\* lineage and transaction time it wrote to when it changed the table.
Call(op, o) ==
    IF o.rows = rows
    THEN [op |-> op, result |-> o.result, PatientId |-> "", LoincNum |-> "",
          ValidStartTime |-> NoMatch, T |-> NoMatch]
    ELSE [op |-> op, result |-> o.result, PatientId |-> o.PatientId,
          LoincNum |-> o.LoincNum, ValidStartTime |-> o.ValidStartTime,
          T |-> o.T]

\* ------------------------------------------------------------------- system
NoCallYet ==
    [op |-> "none", result |-> "OK", PatientId |-> "",
     LoincNum |-> "", ValidStartTime |-> NoMatch, T |-> NoMatch]

\* No abstraction run under way; `complete` is the table as the last
\* completed run left it.
IdleRun(complete) ==
    [pc |-> "idle", result |-> "none", snapshot |-> NoMatch,
     complete |-> complete]

NoCall == [fn |-> "none"]

InitEngines ==
    /\ abstracted = {}
    /\ absRun = IdleRun({})
    /\ mediatorCall = NoCall
    /\ ruleCall = NoCall

Init ==
    /\ rows = <<>>
    /\ patients = InitialPatients
    /\ now = 0
    /\ lastCall = NoCallYet
    /\ InitEngines

Tick ==
    /\ now < MaxTime
    /\ now' = now + 1
    /\ UNCHANGED <<rows, patients, lastCall>>
    /\ UNCHANGED engineVars

Apply(op, o) ==
    /\ Len(o.rows) <= MaxRows
    /\ rows' = o.rows
    /\ lastCall' = Call(op, o)
    /\ UNCHANGED <<patients, now>>
    /\ UNCHANGED engineVars

InsertWith(pids, vsts, vals, us, concepts, Ts, fails) ==
    \E pid \in pids, vst \in vsts, v \in vals, u \in us, c \in concepts,
       T \in Ts, fail \in fails :
        Apply("insert", insert_measurement(pid, vst, v, u, c[1], c[2], T, fail))

UpdateWith(pids, vsts, vals, us, concepts, Ts, fails) ==
    \E pid \in pids, vst \in vsts, v \in vals, u \in us, c \in concepts,
       T \in Ts, fail \in fails :
        Apply("update", update_measurement(pid, vst, v, c[1], c[2], T, fail, u))

DeleteWith(pids, vsts, concepts, Ds, fails) ==
    \E pid \in pids, vst \in vsts, c \in concepts, D \in Ds, fail \in fails :
        Apply("delete", delete_measurement(pid, vst, c[2], c[1], D, fail))

MainPatient == "P1"
MainVsts == {<<"dt", 0>>}
MainInsertValues == {"10"}
MainUpdateValues == {"11"}
MainUnits == {"u1"}

InsertMeasurement ==
    InsertWith({MainPatient}, MainVsts, MainInsertValues, MainUnits,
               MainConcepts, MainTimeArgs, {0})

UpdateMeasurement ==
    UpdateWith({MainPatient}, MainVsts, MainUpdateValues, MainUnits,
               MainConcepts, MainTimeArgs, {0, 2})

DeleteMeasurement ==
    DeleteWith({MainPatient}, MainVsts, MainConcepts, MainTimeArgs, {0})

Next == Tick \/ InsertMeasurement \/ UpdateMeasurement \/ DeleteMeasurement

Spec == Init /\ [][Next]_vars

\* Call sequences made of inserts only (of any patient, concept and valid
\* start), and of inserts and deletes only.
InsertAnyMeasurement ==
    InsertWith(PatientIds, ValidStartArgs, MainInsertValues, MainUnits,
               ConceptArgs, MainTimeArgs, {0})

NextInsert == Tick \/ InsertAnyMeasurement

SpecInsert == Init /\ [][NextInsert]_vars

NextInsertDelete == Tick \/ InsertMeasurement \/ DeleteMeasurement

SpecInsertDelete == Init /\ [][NextInsertDelete]_vars

\* Several measurements of one day, deleted by naming the day only.
DayConcepts == {<<"", "L1">>}

DayDeleteConcepts == {<<"", "L1">>, <<"glucose", "">>}

InsertOnDay ==
    InsertWith({MainPatient}, ValidStartArgs, MainInsertValues, MainUnits,
               DayConcepts, DtArgs, {0})

DeleteByDate ==
    DeleteWith({MainPatient}, DateArgs, DayDeleteConcepts, MainTimeArgs, {0})

NextDateDelete == Tick \/ InsertOnDay \/ DeleteByDate

SpecDateDelete == Init /\ [][NextDateDelete]_vars

\* One lineage written with either unit, long enough for an insert, a delete,
\* a second insert and an update.
ApplyWithin(op, o, n) ==
    /\ Len(o.rows) <= n
    /\ rows' = o.rows
    /\ lastCall' = Call(op, o)
    /\ UNCHANGED <<patients, now>>
    /\ UNCHANGED engineVars

InsertWithUnit ==
    \E u \in Units, T \in DtArgs :
        ApplyWithin("insert",
                    insert_measurement(MainPatient, <<"dt", 0>>, "10", u,
                                       PyNone, "L1", T, 0),
                    MaxRows + 1)

UpdateInheritingUnit ==
    \E T \in DtArgs, u \in Units :
        ApplyWithin("update",
                    update_measurement(MainPatient, <<"dt", 0>>, "11",
                                       PyNone, "L1", T, 0, u),
                    MaxRows + 1)

DeleteOfUnit ==
    \E D \in DtArgs :
        ApplyWithin("delete",
                    delete_measurement(MainPatient, <<"dt", 0>>, "L1", "",
                                       D, 0),
                    MaxRows + 1)

NextUnits == InsertWithUnit \/ UpdateInheritingUnit \/ DeleteOfUnit

SpecUnits == Init /\ [][NextUnits]_vars

\* ---------------------------------------------------------- Register Patient
validate_patient_id(patient_id) == patient_id \in PatientIds

validate_name(name) == name \in {"Ann", "Lee"}

validate_sex(sex) == sex \in {"Male", "Female"}

\* register_patient: <<result, Patients table after the call>>.
register_patient(patient_id, first_name, last_name, sex) ==
    IF Falsy(patient_id) \/ Falsy(first_name) \/ Falsy(last_name) \/ Falsy(sex)
    THEN <<"InvalidInput", patients>>
    ELSE IF check_patient_by_id(patient_id)
    THEN <<"AlreadyExists", patients>>
    ELSE IF ~validate_patient_id(patient_id)
    THEN <<"InvalidInput", patients>>
    ELSE IF ~validate_name(first_name) \/ ~validate_name(last_name)
    THEN <<"InvalidInput", patients>>
    ELSE IF ~validate_sex(sex)
    THEN <<"InvalidInput", patients>>
    ELSE <<"OK", patients \cup {patient_id}>>

\* A good registration and the same with one argument bad at a time.
RegisterArgs ==
    { <<"P2", "Ann", "Lee", "Female">>, <<"P1", "Ann", "Lee", "Female">>,
      <<"12", "Ann", "Lee", "Female">>, <<PyNone, "Ann", "Lee", "Female">>,
      <<"P2", "4nn", "Lee", "Female">>, <<"P2", "Ann", "", "Female">>,
      <<"P2", "Ann", "Lee", "Other">> }

RegisterPatient ==
    \E a \in RegisterArgs :
        LET o == register_patient(a[1], a[2], a[3], a[4]) IN
        /\ patients' = o[2]
        /\ lastCall' = [NoCallYet EXCEPT !.op = "register", !.result = o[1]]
        /\ UNCHANGED <<rows, now>>
        /\ UNCHANGED engineVars

\* Measurement calls <<patient, valid start, value, <<component, code>>,
\* transaction time>>: the good call at every time, and the same with one
\* argument bad at a time.
ErrConcepts ==
    { <<"glucose", PyNone>>, <<"insulin", PyNone>>, <<PyNone, "L9">>,
      <<"glucose urine", "L1">>, <<"", "">> }

ErrCalls ==
    { <<"P1", <<"dt", 0>>, "10", <<"", "L1">>, T>> : T \in DtArgs }
    \cup { <<"P1", <<"dt", 0>>, "10", c, <<"dt", 0>>>> : c \in ErrConcepts }
    \cup { <<"P3", <<"dt", 0>>, "10", <<"", "L1">>, <<"dt", 0>>>>,
           <<"P1", NoTime, "10", <<"", "L1">>, <<"dt", 0>>>>,
           <<"P1", <<"dt", 1>>, "10", <<"", "L1">>, <<"dt", 0>>>>,
           <<"P1", <<"dt", 0>>, "abc", <<"", "L1">>, <<"dt", 0>>>>,
           <<"P1", <<"dt", 0>>, "10", <<"", "L1">>, <<"bad", 0>>>> }

InsertOrError ==
    \E a \in ErrCalls :
        Apply("insert", insert_measurement(a[1], a[2], a[3], "u1",
                                           a[4][1], a[4][2], a[5], 0))

UpdateOrError ==
    \E a \in ErrCalls :
        Apply("update", update_measurement(a[1], a[2], a[3], a[4][1],
                                           a[4][2], a[5], 0, "u1"))

DeleteOrError ==
    \E a \in ErrCalls :
        Apply("delete", delete_measurement(a[1], a[2], a[4][2], a[4][1],
                                           a[5], 0))

NextErrors == RegisterPatient \/ InsertOrError \/ UpdateOrError \/ DeleteOrError

SpecErrors == Init /\ [][NextErrors]_vars

\* ------------------------------------------------------------ abstract_data
AbsRow(p, l, v, s, e) ==
    [PatientId |-> p, LoincCode |-> l, Value |-> v,
     StartDateTime |-> s, EndDateTime |-> e]

\* Contents the AbstractedMeasurements table of the database file may hold
\* when the process starts.
PriorAbstracted ==
    { {},
      {AbsRow("P1", "L1", "Low", 0, 1)},
      {AbsRow("P1", "L1", "Low", 0, 1), AbsRow("P2", "L1", "High", 1, 2)} }

\* Mediator._get_patient_records: an unregistered patient has no records; for
\* a registered one the base query file is opened through the name
\* SEARCH_HISTORY_QUERY, which backend_config does not define.
Mediator_get_patient_records(patient_id) ==
    IF ~check_patient_by_id(patient_id) THEN "empty" ELSE "NameError"

\* Mediator.run up to its first step.
Mediator_run(patient_id) == Mediator_get_patient_records(Str(patient_id))

\* abstract_data up to its first commit: the snapshot is normalised and the
\* table is emptied.
AbstractData_Clear ==
    /\ absRun.pc = "idle"
    /\ \E snapshot_date \in TimeArgs \cup OddTimeArgs :
          IF ~CanParse(NowOr(snapshot_date))
          THEN /\ absRun' = [absRun EXCEPT !.result = "InvalidInput",
                                           !.snapshot = NoMatch]
               /\ UNCHANGED abstracted
          ELSE /\ abstracted' = {}
               /\ absRun' = [absRun EXCEPT
                                !.pc = "cleared", !.result = "none",
                                !.snapshot = SnapshotInstant(snapshot_date)]
    /\ UNCHANGED <<storeVars, mediatorCall, ruleCall>>

\* abstract_data after the commit: the patients are fetched and the Mediator
\* is run for each in turn; the first exception ends the call.
AbstractData_Run ==
    /\ absRun.pc = "cleared"
    /\ absRun' = [absRun EXCEPT
                     !.pc = "idle",
                     !.result =
                        IF patients = {} THEN "NoPatients"
                        ELSE IF \E p \in patients : Mediator_run(p) = "NameError"
                        THEN "PatientError"
                        ELSE "NothingAbstracted"]
    /\ UNCHANGED <<storeVars, abstracted, mediatorCall, ruleCall>>

InsertBetweenRuns ==
    /\ absRun.pc = "idle"
    /\ InsertWith(PatientIds, MainVsts, MainInsertValues, MainUnits,
                  {<<"", "L1">>}, DtArgs, {0})

InitAbstract ==
    /\ rows = <<>>
    /\ patients \in SUBSET PatientIds
    /\ now = 0
    /\ lastCall = NoCallYet
    /\ abstracted \in PriorAbstracted
    /\ absRun = IdleRun(abstracted)
    /\ mediatorCall = NoCall
    /\ ruleCall = NoCall

NextAbstract ==
    Tick \/ InsertBetweenRuns \/ AbstractData_Clear \/ AbstractData_Run

SpecAbstract == InitAbstract /\ [][NextAbstract]_vars

\* ------------------------------------------- Mediator: merging of intervals
MaxInstant == 2
MaxIntervals == 3
Relevance == 1

Instants == 0..MaxInstant

\* String order of the LOINC codes and of the labels, as sort_values uses it.
CodeRank == [L1 |-> 1, L2 |-> 2]

ValueRank == [High |-> 1, Low |-> 2]

Interval(l, v, s, e) ==
    [LoincCode |-> l, Value |-> v, StartDateTime |-> s, EndDateTime |-> e]

\* Abstracted intervals a TAK rule can emit: [t - before, t + after].
AbstractedIntervals ==
    {Interval("L1", v, t, t + w) : v \in {"High", "Low"}, t \in Instants, w \in {0, 1}}
    \cup {Interval("L2", "Low", t, t + 1) : t \in Instants}

RECURSIVE SeqsUpTo(_, _)
SeqsUpTo(S, n) ==
    IF n = 0 THEN {<<>>}
    ELSE LET shorter == SeqsUpTo(S, n - 1) IN
         shorter \cup {Append(q, x) : q \in {r \in shorter : Len(r) = n - 1}, x \in S}

MergeInputs == SeqsUpTo(AbstractedIntervals, MaxIntervals)

\* df.sort_values(by=['LOINC-Code', 'StartDateTime', 'Value']).
SortsBefore(a, b) ==
    \/ CodeRank[a.LoincCode] < CodeRank[b.LoincCode]
    \/ /\ a.LoincCode = b.LoincCode
       /\ \/ a.StartDateTime < b.StartDateTime
          \/ /\ a.StartDateTime = b.StartDateTime
             /\ ValueRank[a.Value] < ValueRank[b.Value]

InsertSorted(t, x) ==
    LET k == Cardinality({i \in DOMAIN t : ~SortsBefore(x, t[i])}) IN
    SubSeq(t, 1, k) \o <<x>> \o SubSeq(t, k + 1, Len(t))

RECURSIVE sort_values(_)
sort_values(df) ==
    IF df = <<>> THEN <<>>
    ELSE InsertSorted(sort_values(SubSeq(df, 1, Len(df) - 1)), df[Len(df)])

MaxOf(a, b) == IF a >= b THEN a ELSE b

\* row['EndDateTime'] += timedelta(hours=relevance_hours)
extend_by_relevance_Skipped(row) == row

extend_by_relevance(row) ==
    [row EXCEPT !.EndDateTime = @ + Relevance]

\* The interval that is closed when `row` does not merge into it: its end is
\* cut back to row's start when both have the same code and would overlap.
close_current_Untruncated(current, row) == current

close_current(current, row) ==
    IF row.LoincCode = current.LoincCode
          /\ row.StartDateTime < current.EndDateTime
    THEN [current EXCEPT !.EndDateTime = row.StartDateTime]
    ELSE current

RECURSIVE merge_loop(_, _, _)
merge_loop(rest, current, merged_records) ==
    IF rest = <<>> THEN Append(merged_records, current)
    ELSE LET row == extend_by_relevance(Head(rest))
             same_code  == row.LoincCode = current.LoincCode
             same_value == row.Value = current.Value
             overlap_or_touching == row.StartDateTime <= current.EndDateTime
         IN IF same_code /\ same_value /\ overlap_or_touching
            THEN merge_loop(Tail(rest),
                            [current EXCEPT !.EndDateTime =
                                MaxOf(current.EndDateTime, row.EndDateTime)],
                            merged_records)
            ELSE merge_loop(Tail(rest), row,
                            Append(merged_records, close_current(current, row)))

merge_abstracted_intervals(df) ==
    IF df = <<>> THEN <<>>
    ELSE LET ordered == sort_values(df) IN
         merge_loop(Tail(ordered), extend_by_relevance(Head(ordered)), <<>>)

MergeCall(df) == [fn |-> "merge", input |-> df, output |-> <<>>, done |-> FALSE]

Merge ==
    /\ mediatorCall.fn = "merge"
    /\ ~mediatorCall.done
    /\ mediatorCall' = [mediatorCall EXCEPT
                           !.output = merge_abstracted_intervals(mediatorCall.input),
                           !.done = TRUE]
    /\ UNCHANGED <<storeVars, abstracted, absRun, ruleCall>>

InitMerge ==
    /\ rows = <<>>
    /\ patients = InitialPatients
    /\ now = 0
    /\ lastCall = NoCallYet
    /\ abstracted = {}
    /\ absRun = IdleRun({})
    /\ mediatorCall \in {MergeCall(df) : df \in MergeInputs}
    /\ ruleCall = NoCall

SpecMerge == InitMerge /\ [][Merge]_vars

\* ------------------------------------------------------------ TAKRule.apply
\* A threshold of a TAK rule is {label, min, max}; min and max are None when
\* the rule node has no such attribute.
MaxThresholds == 2
MaxRawRows == 2
GoodBefore == 1
GoodAfter == 2
NoBound == -1

RawValues == {0, 1, 2}
Cuts == {NoBound, 1, 2}
Labels == <<"Low", "Normal", "High">>

Threshold(label, min, max) == [label |-> label, min |-> min, max |-> max]

\* The ordered threshold lists of a condition node: the k-th rule node
\* carries the k-th label.
ThresholdLists ==
    UNION { {[k \in 1..n |-> Threshold(Labels[k], b[k][1], b[k][2])] :
                b \in [1..n -> Cuts \X Cuts]} : n \in 0..MaxThresholds }

TAKRule(loinc_code, rules) ==
    [abstraction_name |-> "Glucose State",
     loinc_code |-> loinc_code,
     good_before |-> GoodBefore,
     good_after |-> GoodAfter,
     rules |-> rules]

\* The patient's raw rows as Mediator.run frames them: row i of the frame has
\* index i; the rows are one per instant.
RawFrames ==
    UNION { {[i \in 1..n |-> [name |-> i,
                              LoincNum |-> f[i][1],
                              Value |-> f[i][2],
                              ValidStartTime |-> i - 1]] :
                f \in [1..n -> LoincCodes \X RawValues]} : n \in 0..MaxRawRows }

\* raw_df[raw_df['LOINC-NUM'] == rule.loinc_code]: the rows keep their index.
rule_df(raw_df, rule) ==
    SelectSeq(raw_df, LAMBDA row : row.LoincNum = rule.loinc_code)

threshold_matches_MinExclusive(rule, val) ==
    /\ (rule.min = NoBound \/ val > rule.min)
    /\ (rule.max = NoBound \/ val < rule.max)

threshold_matches(rule, val) ==
    /\ (rule.min = NoBound \/ val >= rule.min)
    /\ (rule.max = NoBound \/ val < rule.max)

\* The inner loop: the label of the first threshold that matches, else None.
RECURSIVE first_match(_, _)
first_match(rules, val) ==
    IF rules = <<>> THEN PyNone
    ELSE IF threshold_matches(Head(rules), val) THEN Head(rules).label
    ELSE first_match(Tail(rules), val)

RECURSIVE apply_loop(_, _, _, _)
apply_loop(self, df, abstracted_records, used_indices) ==
    IF df = <<>>
    THEN [abstracted |-> abstracted_records, used_indices |-> used_indices]
    ELSE LET row == Head(df)
             match == first_match(self.rules, row.Value)
         IN IF ~Falsy(match)
            THEN apply_loop(self, Tail(df),
                     Append(abstracted_records,
                            Interval(self.loinc_code, match,
                                     row.ValidStartTime - self.good_before,
                                     row.ValidStartTime + self.good_after)),
                     used_indices \cup {row.name})
            ELSE apply_loop(self, Tail(df), abstracted_records, used_indices)

TAKRule_apply(self, df) == apply_loop(self, df, <<>>, {})

NoneApplied == [abstracted |-> <<>>, used_indices |-> {}]

ApplyCall(raw_df, rule) ==
    [fn |-> "apply", raw_df |-> raw_df, rule |-> rule,
     output |-> NoneApplied, done |-> FALSE]

\* Step 3 of Mediator.run for one applicable rule.
ApplyRule ==
    /\ mediatorCall.fn = "apply"
    /\ ~mediatorCall.done
    /\ LET df == rule_df(mediatorCall.raw_df, mediatorCall.rule) IN
       mediatorCall' = [mediatorCall EXCEPT
                           !.output = IF df = <<>> THEN NoneApplied
                                      ELSE TAKRule_apply(mediatorCall.rule, df),
                           !.done = TRUE]
    /\ UNCHANGED <<storeVars, abstracted, absRun, ruleCall>>

InitApply ==
    /\ rows = <<>>
    /\ patients = InitialPatients
    /\ now = 0
    /\ lastCall = NoCallYet
    /\ abstracted = {}
    /\ absRun = IdleRun({})
    /\ mediatorCall \in {ApplyCall(raw_df, TAKRule("L1", rules)) :
                             raw_df \in RawFrames, rules \in ThresholdLists}
    /\ ruleCall = NoCall

SpecApply == InitApply /\ [][ApplyRule]_vars

\* ------------------------------------------------------------ RuleProcessor
\* A rule document: "rules" maps condition ids, in document order, to
\* {param -> allowed values}; "values" maps condition ids to outputs.
MaxConditions == 2
NoIndex == -1

ParamNames == {"hemoglobin", "wbc"}
StateValues == {"Low", "Normal"}
AllowedLists == (SUBSET StateValues) \ {{}}
CondIds == <<"c1", "c2", "c3">>
RuleValues == [c1 |-> "Grade I", c2 |-> "Grade II", c3 |-> "Grade III"]
FallbackValue == "Unknown"

\* A condition lists each of its parameters once, in document order.
Conditions ==
    UNION { {c \in [1..n -> ParamNames \X AllowedLists] :
                \A i, j \in 1..n : i # j => c[i][1] # c[j][1]} :
            n \in 0..Cardinality(ParamNames) }

RuleJson(logic_type, conds) ==
    [logic_type |-> logic_type,
     rules |-> [k \in DOMAIN conds |->
                   [cond_id |-> CondIds[k], condition |-> conds[k]]],
     values |-> RuleValues,
     fallback_value |-> FallbackValue]

RuleDocs(logic_type) ==
    UNION { {RuleJson(logic_type, conds) : conds \in [1..n -> Conditions]} :
            n \in 0..MaxConditions }

\* The output of _search_param: every parameter has a value or None.
InputValues == [ParamNames -> StateValues \cup {PyNone}]

\* dict.get(key, default)
DictGet(dict, key, default) ==
    IF key \in DOMAIN dict THEN dict[key] ELSE default

param_fails_NullIgnored(actual_value, allowed_values) ==
    actual_value # PyNone /\ Str(actual_value) \notin allowed_values

param_fails(actual_value, allowed_values) ==
    actual_value = PyNone \/ Str(actual_value) \notin allowed_values

\* The inner loop of _apply_AND_rule: match stays True unless a pair fails.
RECURSIVE and_match(_, _)
and_match(condition, input_values) ==
    IF condition = <<>> THEN TRUE
    ELSE IF param_fails(input_values[Head(condition)[1]], Head(condition)[2])
         THEN FALSE
         ELSE and_match(Tail(condition), input_values)

RECURSIVE and_loop(_, _, _)
and_loop(rules, rule_json, input_values) ==
    IF rules = <<>> THEN rule_json.fallback_value
    ELSE IF and_match(Head(rules).condition, input_values)
         THEN DictGet(rule_json.values, Head(rules).cond_id,
                      rule_json.fallback_value)
         ELSE and_loop(Tail(rules), rule_json, input_values)

apply_AND_rule(rule_json, input_values) ==
    and_loop(rule_json.rules, rule_json, input_values)

param_hits(actual_value, allowed_values) ==
    actual_value # PyNone /\ Str(actual_value) \in allowed_values

\* The inner loop of _apply_OR_rule: stops at the first pair that hits.
RECURSIVE or_match(_, _)
or_match(condition, input_values) ==
    IF condition = <<>> THEN FALSE
    ELSE IF param_hits(input_values[Head(condition)[1]], Head(condition)[2])
         THEN TRUE
         ELSE or_match(Tail(condition), input_values)

is_later_Reversed(idx, max_idx) == idx < max_idx

is_later(idx, max_idx) == idx > max_idx

\* The outer loop of _apply_OR_rule; idx counts from 0 as enumerate does.
RECURSIVE or_loop(_, _, _, _, _)
or_loop(rules, idx, input_values, max_idx, matched_cond_id) ==
    IF rules = <<>> THEN matched_cond_id
    ELSE IF /\ or_match(Head(rules).condition, input_values)
            /\ is_later(idx, max_idx)
         THEN or_loop(Tail(rules), idx + 1, input_values,
                      idx, Head(rules).cond_id)
         ELSE or_loop(Tail(rules), idx + 1, input_values,
                      max_idx, matched_cond_id)

apply_OR_rule(rule_json, input_values) ==
    DictGet(rule_json.values,
            or_loop(rule_json.rules, 0, input_values, NoIndex, PyNone),
            rule_json.fallback_value)

RuleCall(rule_json, input_values) ==
    [fn |-> "apply_rule", rule_json |-> rule_json,
     input_values |-> input_values, output |-> PyNone, done |-> FALSE]

ApplyAndRule ==
    /\ ruleCall.fn = "apply_rule"
    /\ ~ruleCall.done
    /\ ruleCall.rule_json.logic_type # "OR"
    /\ ruleCall' = [ruleCall EXCEPT
                       !.output = apply_AND_rule(ruleCall.rule_json,
                                                 ruleCall.input_values),
                       !.done = TRUE]
    /\ UNCHANGED <<storeVars, abstracted, absRun, mediatorCall>>

ApplyOrRule ==
    /\ ruleCall.fn = "apply_rule"
    /\ ~ruleCall.done
    /\ ruleCall.rule_json.logic_type = "OR"
    /\ ruleCall' = [ruleCall EXCEPT
                       !.output = apply_OR_rule(ruleCall.rule_json,
                                                ruleCall.input_values),
                       !.done = TRUE]
    /\ UNCHANGED <<storeVars, abstracted, absRun, mediatorCall>>

InitRule ==
    /\ rows = <<>>
    /\ patients = InitialPatients
    /\ now = 0
    /\ lastCall = NoCallYet
    /\ abstracted = {}
    /\ absRun = IdleRun({})
    /\ mediatorCall = NoCall
    /\ ruleCall \in {RuleCall(rule_json, input_values) :
                         rule_json \in RuleDocs("AND") \cup RuleDocs("OR"),
                         input_values \in InputValues}

NextRule == ApplyAndRule \/ ApplyOrRule

SpecRule == InitRule /\ [][NextRule]_vars

\* ------------------------------------------- RuleProcessor._search_param
MaxAbstractedRows == 2

\* str.lower() on the names that occur.
Lower(name) ==
    CASE name = "Sex" -> "sex"
      [] name = "PatientId" -> "patientid"
      [] name = "FirstName" -> "firstname"
      [] name = "LastName" -> "lastname"
      [] name = "Hemoglobin" -> "hemoglobin"
      [] name = "Grade" -> "grade"
      [] name = "Anemia" -> "anemia"
      [] name = "Severity" -> "severity"
      [] name = "Treatment" -> "treatment"
      [] name = "Male" -> "male"
      [] name = "Female" -> "female"
      [] OTHER -> name

\* GET_PATIENT_PARAMS_QUERY: the patient's row of the Patients table, keyed by
\* the lower-cased column names; no row for an unregistered patient.
PatientsTable ==
    [P1 |-> [patientid |-> "P1", firstname |-> "Ann", lastname |-> "Lee",
             sex |-> "Female"]]

\* The state cache: PatientId and the results stored so far.
StateCaches ==
    {("PatientId" :> "P1") @@ g @@ x @@ h :
        g \in {<<>>, "Grade" :> PyNone, "Grade" :> "Grade I"},
        x \in {<<>>, "Sex" :> "Other"},
        h \in {<<>>, "Hemoglobin" :> "Cached"}}

AbstractedRow(concept, value, start) ==
    [ConceptName |-> concept, Value |-> value, StartDateTime |-> start]

\* The patient's abstracted frame, rows in index order.
AbstractedFrames ==
    UNION { [1..n -> {AbstractedRow(c, v, t) :
                         c \in {"Hemoglobin", "Grade"},
                         v \in StateValues, t \in {0, 1}}] :
            n \in 0..MaxAbstractedRows }

ParamLists ==
    UNION { [1..n -> {"Sex", "grade", "hemoglobin", "wbc"}] : n \in {1, 2} }

\* Series.idxmax(): the first index that holds the maximum.
idxmax_First(df, match) == CHOOSE i \in match : \A j \in match : i <= j

idxmax(df, match) ==
    CHOOSE i \in match :
        /\ \A j \in match : df[j].StartDateTime <= df[i].StartDateTime
        /\ \A j \in match :
              df[j].StartDateTime = df[i].StartDateTime => i <= j

\* The loop body of _search_param for one parameter.
resolve_param(original_param, patients_data, state, df) ==
    LET param_lower == Lower(original_param)
        cached == {k \in DOMAIN state :
                      Lower(k) = param_lower /\ state[k] # PyNone}
        match == {i \in DOMAIN df : Lower(df[i].ConceptName) = param_lower}
    IN IF param_lower \in DOMAIN patients_data
       THEN patients_data[param_lower]
       ELSE IF cached # {} THEN state[CHOOSE k \in cached : TRUE]
       ELSE IF match # {} THEN df[idxmax(df, match)].Value
       ELSE PyNone

\* _search_param: raises when the Patients query returns no row, else returns
\* the map from each listed name to its value.
search_param(param_list, df, patient_id, state) ==
    IF patient_id \notin DOMAIN PatientsTable
    THEN [raised |-> TRUE, values |-> <<>>]
    ELSE [raised |-> FALSE,
          values |-> [p \in {param_list[n] : n \in DOMAIN param_list} |->
                        resolve_param(p, PatientsTable[patient_id], state, df)]]

SearchCall(param_list, df, patient_id, state) ==
    [fn |-> "search_param", param_list |-> param_list, df |-> df,
     patient_id |-> patient_id, state |-> state,
     output |-> [raised |-> FALSE, values |-> <<>>], done |-> FALSE]

SearchParam ==
    /\ ruleCall.fn = "search_param"
    /\ ~ruleCall.done
    /\ ruleCall' = [ruleCall EXCEPT
                       !.output = search_param(ruleCall.param_list, ruleCall.df,
                                               ruleCall.patient_id,
                                               ruleCall.state),
                       !.done = TRUE]
    /\ UNCHANGED <<storeVars, abstracted, absRun, mediatorCall>>

InitSearch ==
    /\ rows = <<>>
    /\ patients = InitialPatients
    /\ now = 0
    /\ lastCall = NoCallYet
    /\ abstracted = {}
    /\ absRun = IdleRun({})
    /\ mediatorCall = NoCall
    /\ ruleCall \in {SearchCall(pl, df, pid, st) :
                         pl \in ParamLists, df \in AbstractedFrames,
                         pid \in {"P1", "P3"}, st \in StateCaches}

SpecSearch == InitSearch /\ [][SearchParam]_vars

\* ------------------------------------- RuleProcessor.__init__ and run
MaxOrder == 3

Orders == 1..MaxOrder

\* JSON values: a string, or a list of strings.
PyStr(text) == [type |-> "str", text |-> text]

PyList(items) == [type |-> "list", items |-> items]

\* Declarative rule over the abstracted concept "Hemoglobin".
AnemiaRule(order) ==
    [rule_name |-> "Anemia", execution_order |-> order,
     input_parameters |-> <<"hemoglobin">>, logic_type |-> "AND",
     rules |-> <<[cond_id |-> "c1",
                  condition |-> << <<"hemoglobin", {"Low"}>> >>]>>,
     values |-> [c1 |-> PyStr("Grade I")],
     fallback_value |-> PyStr("Unknown")]

\* Declarative rule over the result of the rule named "Anemia".
SeverityRule(order) ==
    [rule_name |-> "Severity", execution_order |-> order,
     input_parameters |-> <<"anemia">>, logic_type |-> "AND",
     rules |-> <<[cond_id |-> "c1",
                  condition |-> << <<"anemia", {"Grade I"}>> >>]>>,
     values |-> [c1 |-> PyStr("Severe")],
     fallback_value |-> PyStr("Mild")]

\* Procedural rule over the result of "Severity" and the Patients column Sex.
TreatmentRule(order) ==
    [rule_name |-> "Treatment", execution_order |-> order,
     input_parameters |-> <<"Severity", "Sex">>, logic_type |-> "OR",
     rules |-> <<[cond_id |-> "c1",
                  condition |-> << <<"Sex", {"Female"}>> >>],
                 [cond_id |-> "c2",
                  condition |-> << <<"Severity", {"Severe"}>> >>]>>,
     values |-> [c1 |-> PyList(<<"Monitor">>),
                 c2 |-> PyList(<<"Transfuse", "Monitor">>)],
     fallback_value |-> PyList(<<>>)]

\* os.listdir of a tier's folder: its rule files in the order the file
\* system yields them, each file once.
DeclarativeListings ==
    {<<>>}
    \cup {<<AnemiaRule(a)>> : a \in Orders}
    \cup {<<SeverityRule(b)>> : b \in Orders}
    \cup {<<AnemiaRule(a), SeverityRule(b)>> : a \in Orders, b \in Orders}
    \cup {<<SeverityRule(b), AnemiaRule(a)>> : a \in Orders, b \in Orders}

ProceduralListings == {<<>>} \cup {<<TreatmentRule(c)>> : c \in Orders}

Listings ==
    [declarative_knowledge : DeclarativeListings,
     procedural_knowledge : ProceduralListings]

\* The execution_order of each listed file, as _validate_rules collects them.
orders_of(listed) == {listed[n].execution_order : n \in DOMAIN listed}

hierarchy_violated_Strict(declarative_orders, procedural_orders) ==
    /\ declarative_orders # {}
    /\ procedural_orders # {}
    /\ \E lo \in procedural_orders : \E hi \in declarative_orders :
          /\ \A o \in procedural_orders : lo <= o
          /\ \A o \in declarative_orders : o <= hi
          /\ lo < hi

\* "if declarative_orders and procedural_orders: if min_proc <= max_decl"
hierarchy_violated(declarative_orders, procedural_orders) ==
    /\ declarative_orders # {}
    /\ procedural_orders # {}
    /\ \E min_proc \in procedural_orders : \E max_decl \in declarative_orders :
          /\ \A o \in procedural_orders : min_proc <= o
          /\ \A o \in declarative_orders : o <= max_decl
          /\ min_proc <= max_decl

\* _validate_rules: TRUE when the list of errors is not empty.
validate_rules(listing) ==
    \/ \E tier \in DOMAIN listing : \E n \in DOMAIN listing[tier] :
          listing[tier][n].logic_type \notin {"AND", "OR"}
    \/ hierarchy_violated(orders_of(listing.declarative_knowledge),
                          orders_of(listing.procedural_knowledge))

\* sorted(tier, key=execution_order): a stable sort, so files of equal
\* execution_order keep the order of the listing.
RECURSIVE insert_sorted(_, _)
insert_sorted(done, r) ==
    IF done = <<>> THEN <<r>>
    ELSE IF done[Len(done)].execution_order <= r.execution_order
         THEN Append(done, r)
         ELSE Append(insert_sorted(SubSeq(done, 1, Len(done) - 1), r),
                     done[Len(done)])

RECURSIVE sorted_from(_, _)
sorted_from(done, rest) ==
    IF rest = <<>> THEN done
    ELSE sorted_from(insert_sorted(done, Head(rest)), Tail(rest))

sorted(tier_list) == sorted_from(<<>>, tier_list)

discover_rule_paths(listing) ==
    [first_tier |-> sorted(listing.declarative_knowledge),
     second_tier |-> sorted(listing.procedural_knowledge)]

rule_queue_ProceduralFirst(rule_paths) ==
    rule_paths.second_tier \o rule_paths.first_tier

\* "for tier in self.rule_paths.keys(): for rule_path_info in ...": the
\* dict's keys in insertion order, first_tier then second_tier.
rule_queue(rule_paths) == rule_paths.first_tier \o rule_paths.second_tier

apply_rule(rule_json, input_values) ==
    IF rule_json.logic_type = "OR"
    THEN apply_OR_rule(rule_json, input_values)
    ELSE apply_AND_rule(rule_json, input_values)

\* ';'.join(list)
RECURSIVE join(_)
join(items) ==
    IF items = <<>> THEN ""
    ELSE IF Len(items) = 1 THEN items[1]
    ELSE items[1] \o ";" \o join(Tail(items))

join_if_list(classification) ==
    IF classification.type = "list" THEN join(classification.items)
    ELSE classification.text

\* results[rule_name] = classification
store_result(results, rule_name, classification) ==
    [k \in DOMAIN results \cup {rule_name} |->
        IF k = rule_name THEN classification ELSE results[k]]

\* The loop of run from a given place in the queue, for a patient whose
\* Patients row exists.
RECURSIVE run_loop(_, _, _, _)
run_loop(queue, df, patient_id, results) ==
    IF queue = <<>> THEN results
    ELSE LET rule_json == Head(queue)
             input_values == search_param(rule_json.input_parameters, df,
                                          patient_id, results)
             classification == join_if_list(apply_rule(rule_json,
                                                       input_values.values))
         IN run_loop(Tail(queue), df, patient_id,
                     store_result(results, rule_json.rule_name,
                                  classification))

\* RuleProcessor().run(patient_id, df) over a rules folder listed as given.
run(listing, df, patient_id) ==
    run_loop(rule_queue(discover_rule_paths(listing)), df, patient_id,
             ("PatientId" :> patient_id))

RunCall(listing, df, patient_id) ==
    [fn |-> "run", listing |-> listing, df |-> df, patient_id |-> patient_id,
     phase |-> "new", queue |-> <<>>, position |-> 1,
     results |-> <<>>, evaluated |-> <<>>]

\* RuleProcessor(): _validate_rules, then _discover_rule_paths.
Construct ==
    /\ ruleCall.fn = "run"
    /\ ruleCall.phase = "new"
    /\ ruleCall' =
          IF validate_rules(ruleCall.listing)
          THEN [ruleCall EXCEPT !.phase = "invalid"]
          ELSE [ruleCall EXCEPT
                  !.phase = "running",
                  !.queue = rule_queue(discover_rule_paths(ruleCall.listing)),
                  !.results = ("PatientId" :> ruleCall.patient_id)]
    /\ UNCHANGED <<storeVars, abstracted, absRun, mediatorCall>>

\* One pass of the loop of run; "evaluated" logs what the pass saw and gave.
EvaluateRule ==
    /\ ruleCall.fn = "run"
    /\ ruleCall.phase = "running"
    /\ ruleCall.position <= Len(ruleCall.queue)
    /\ LET rule_json == ruleCall.queue[ruleCall.position]
           input_values == search_param(rule_json.input_parameters,
                                        ruleCall.df, ruleCall.patient_id,
                                        ruleCall.results)
       IN ruleCall' =
            IF input_values.raised
            THEN [ruleCall EXCEPT !.phase = "raised"]
            ELSE LET classification ==
                         join_if_list(apply_rule(rule_json,
                                                 input_values.values))
                 IN [ruleCall EXCEPT
                       !.position = @ + 1,
                       !.results = store_result(@, rule_json.rule_name,
                                                classification),
                       !.evaluated =
                           Append(@, [rule_json |-> rule_json,
                                      state |-> ruleCall.results,
                                      input_values |-> input_values.values,
                                      classification |-> classification])]
    /\ UNCHANGED <<storeVars, abstracted, absRun, mediatorCall>>

\* "return results"
ReturnResults ==
    /\ ruleCall.fn = "run"
    /\ ruleCall.phase = "running"
    /\ ruleCall.position > Len(ruleCall.queue)
    /\ ruleCall' = [ruleCall EXCEPT !.phase = "returned"]
    /\ UNCHANGED <<storeVars, abstracted, absRun, mediatorCall>>

InitRun ==
    /\ rows = <<>>
    /\ patients = InitialPatients
    /\ now = 0
    /\ lastCall = NoCallYet
    /\ abstracted = {}
    /\ absRun = IdleRun({})
    /\ mediatorCall = NoCall
    /\ ruleCall \in {RunCall(listing, df, pid) :
                         listing \in Listings, df \in AbstractedFrames,
                         pid \in {"P1", "P3"}}

NextRun == Construct \/ EvaluateRule \/ ReturnResults

SpecRun == InitRun /\ [][NextRun]_vars

\* -------------------------------------------------------------- Mediator.run
\* A TAK rule with its filters; its thresholds leave the value 1 unlabelled.
FilteredRule(loinc_code, filters) ==
    ("filters" :> filters)
    @@ TAKRule(loinc_code, <<Threshold("Low", NoBound, 1),
                             Threshold("High", 2, NoBound)>>)

TakRulePool ==
    {FilteredRule("L1", <<>>), FilteredRule("L1", [sex |-> "male"]),
     FilteredRule("L2", [sex |-> "male"])}

\* self.tak_rules, in the order the documents were loaded.
TakRuleLists == UNION { [1..n -> TakRulePool] : n \in {1, 2} }

\* The attributes _get_patient_records hands to run.
PatientParams == {<<>>, [sex |-> "Male"], [sex |-> "Female"]}

applies_to(self, patient_params) ==
    \A key \in DOMAIN self.filters :
        /\ key \in DOMAIN patient_params
        /\ Lower(Str(patient_params[key])) = Lower(Str(self.filters[key]))

\* Step 3: the loop over self.tak_rules.
RECURSIVE rules_loop(_, _, _, _, _)
rules_loop(tak_rules, params, raw_df, abstracted_records, used_indices) ==
    IF tak_rules = <<>>
    THEN [abstracted |-> abstracted_records, used_indices |-> used_indices]
    ELSE LET rule == Head(tak_rules)
             df == rule_df(raw_df, rule)
         IN IF ~applies_to(rule, params) \/ df = <<>>
            THEN rules_loop(Tail(tak_rules), params, raw_df,
                            abstracted_records, used_indices)
            ELSE LET result == TAKRule_apply(rule, df)
                 IN rules_loop(Tail(tak_rules), params, raw_df,
                               abstracted_records \o result.abstracted,
                               used_indices \cup result.used_indices)

OutputRecord(interval, source) == ("Source" :> source) @@ interval

\* Step 5: a row outside used_indices, as [ValidStartTime, + relevance].
untouched_record(row) ==
    OutputRecord(Interval(row.LoincNum, row.Value, row.ValidStartTime,
                          row.ValidStartTime + Relevance), "raw")

\* final_df.sort_values(by="StartDateTime"); rows of equal start are left
\* in frame order here.
RECURSIVE sort_by_start(_)
sort_by_start(frame) ==
    IF frame = <<>> THEN <<>>
    ELSE LET done == sort_by_start(SubSeq(frame, 1, Len(frame) - 1))
             last == frame[Len(frame)]
             k == Cardinality({i \in DOMAIN done :
                     done[i].StartDateTime <= last.StartDateTime})
         IN SubSeq(done, 1, k) \o <<last>> \o SubSeq(done, k + 1, Len(done))

\* Steps 3 to 7 of run, from the raw rows and parameters of step 1.
run_steps(raw_df, params, tak_rules) ==
    LET result == rules_loop(tak_rules, params, raw_df, <<>>, {})
        merged == merge_abstracted_intervals(result.abstracted)
        merged_records ==
            [i \in DOMAIN merged |-> OutputRecord(merged[i], "abstracted")]
        rest == SelectSeq(raw_df,
                          LAMBDA row : row.name \notin result.used_indices)
        untouched == [i \in DOMAIN rest |-> untouched_record(rest[i])]
    IN [used_indices |-> result.used_indices,
        frame |-> sort_by_start(merged_records \o untouched)]

\* Mediator.run: step 1 ends the call for a registered patient.
MediatorRunCall(patient_id, raw_df, params, tak_rules) ==
    [fn |-> "run", patient_id |-> patient_id, raw_df |-> raw_df,
     params |-> params, tak_rules |-> tak_rules,
     raised |-> "", output |-> <<>>, done |-> FALSE]

RunMediator ==
    /\ mediatorCall.fn = "run"
    /\ ~mediatorCall.done
    /\ LET records == Mediator_run(mediatorCall.patient_id)
       IN mediatorCall' =
            IF records = "NameError"
            THEN [mediatorCall EXCEPT !.raised = "NameError", !.done = TRUE]
            ELSE [mediatorCall EXCEPT !.output = <<>>, !.done = TRUE]
    /\ UNCHANGED <<storeVars, abstracted, absRun, ruleCall>>

\* A registered patient with any visible rows, or an unregistered one, who
\* has none.
InitMediator ==
    /\ rows = <<>>
    /\ patients = InitialPatients
    /\ now = 0
    /\ lastCall = NoCallYet
    /\ abstracted = {}
    /\ absRun = IdleRun({})
    /\ ruleCall = NoCall
    /\ mediatorCall \in
          {MediatorRunCall("P1", raw_df, params, tak_rules) :
              raw_df \in RawFrames, params \in PatientParams \ {<<>>},
              tak_rules \in TakRuleLists}
          \cup {MediatorRunCall("P3", <<>>, <<>>, tak_rules) :
                    tak_rules \in TakRuleLists}

SpecMediator == InitMediator /\ [][RunMediator]_vars

\* ------------------------------------------------------------------ lineages
Lineage(p, l, vst) == {i \in DOMAIN rows : SameKey(rows[i], p, l, vst)}

LineageOf(i) ==
    Lineage(rows[i].PatientId, rows[i].LoincNum, rows[i].ValidStartTime)

LaterInsertions(i) ==
    {rows[j].TransactionInsertionTime : j \in {k \in LineageOf(i) :
        rows[k].TransactionInsertionTime > rows[i].TransactionInsertionTime}}

SetMin(S) == CHOOSE m \in S : \A x \in S : m <= x

StrictlyOrdered(i) ==
    \A j, k \in LineageOf(i) :
        j # k => rows[j].TransactionInsertionTime # rows[k].TransactionInsertionTime

\* C1: in every lineage whose rows are ordered t1 < t2 < ... < tn by
\* TransactionInsertionTime, each row's TransactionDeletionTime equals the
\* next row's insertion time, and the last row's TransactionDeletionTime is
\* NULL or later than now.
C1_LineageChained ==
    \A i \in DOMAIN rows :
        StrictlyOrdered(i)
        => IF LaterInsertions(i) = {}
           THEN \/ rows[i].TransactionDeletionTime = SqlNull
                \/ rows[i].TransactionDeletionTime > now
           ELSE rows[i].TransactionDeletionTime = SetMin(LaterInsertions(i))

\* C7: no two rows share (PatientId, LoincNum, ValidStartTime,
\* TransactionInsertionTime).
C7_NaturalKeyUnique ==
    \A i, j \in DOMAIN rows :
        (/\ i # j
         /\ SameKey(rows[i], rows[j].PatientId, rows[j].LoincNum,
                    rows[j].ValidStartTime))
        => rows[i].TransactionInsertionTime # rows[j].TransactionInsertionTime

\* C8: every row whose TransactionDeletionTime is set has it strictly after
\* its TransactionInsertionTime.
C8_DeletionAfterInsertion ==
    \A i \in DOMAIN rows :
        rows[i].TransactionDeletionTime # SqlNull
        => rows[i].TransactionDeletionTime > rows[i].TransactionInsertionTime

\* ------------------------------------------------- calls in the current state
UpdateCalls ==
    {update_measurement(MainPatient, vst, v, c[1], c[2], T, fail, u) :
        vst \in MainVsts, v \in MainUpdateValues, c \in MainConcepts,
        T \in MainTimeArgs, fail \in {0, 2}, u \in MainUnits}

DeleteCalls ==
    {delete_measurement(MainPatient, vst, c[2], c[1], D, 0) :
        vst \in MainVsts, c \in MainConcepts, D \in MainTimeArgs}

Wrote(op) == lastCall.op = op /\ lastCall.T # NoMatch

\* C2: an update never leaves the deletion stamp committed without the new
\* row: whenever the last update wrote to the table, its lineage holds an open
\* row inserted at the update's transaction time.
C2_UpdateAtomic ==
    Wrote("update") =>
        \E i \in Lineage(lastCall.PatientId, lastCall.LoincNum,
                          lastCall.ValidStartTime) :
            /\ rows[i].TransactionInsertionTime = lastCall.T
            /\ rows[i].TransactionDeletionTime = SqlNull

\* C3: an Update or Delete at T is rejected, writing nothing, whenever its
\* lineage holds a row inserted after T; an Update that also has a row visible
\* at T is rejected as a stale update.
C3_StaleRejected ==
    /\ \A o \in UpdateCalls \cup DeleteCalls :
          check_future_record(o.PatientId, o.LoincNum, o.ValidStartTime, o.T)
          => (o.result \notin {"OK", "StoreError"} /\ o.rows = rows)
    /\ \A o \in UpdateCalls :
          (/\ check_future_record(o.PatientId, o.LoincNum, o.ValidStartTime, o.T)
           /\ check_record(o.PatientId, o.LoincNum, o.ValidStartTime, o.T))
          => o.result = "StaleUpdate"

C3_Witness ==
    /\ lastCall.op = "update"
    /\ lastCall.result = "StaleUpdate"
    /\ \E o \in UpdateCalls :
          /\ o.result = "StaleUpdate"
          /\ check_record(o.PatientId, o.LoincNum, o.ValidStartTime, o.T)

InsertCalls ==
    {insert_measurement(MainPatient, vst, v, u, c[1], c[2], T, 0) :
        vst \in MainVsts, v \in MainInsertValues, u \in MainUnits,
        c \in MainConcepts, T \in MainTimeArgs}

Dt(t) == <<"dt", t>>

\* The History Query restricted to one lineage.
LineageHistory(p, l, vst, S) ==
    search_history(p, Dt(S), l, PyNone, Dt(vst), Dt(vst))

History(p, S) == search_history(p, S, PyNone, PyNone, NoTime, NoTime)

\* C4: when an Update at T2 succeeds on a lineage that holds just the row of
\* an Insert at T1 < T2, the lineage then holds exactly two rows; its history
\* at any snapshot T1 <= S < T2 is the one original row with its value, and at
\* any S >= T2 the one new row with the updated value.
C4_InsertThenUpdate ==
    [][\A l \in LoincCodes, vst \in Times :
        LET pre == Lineage(MainPatient, l, vst)
            T2  == lastCall'.T
        IN
        (/\ lastCall'.op = "update" /\ lastCall'.result = "OK"
         /\ rows' # rows
         /\ lastCall'.PatientId = MainPatient
         /\ lastCall'.LoincNum = l /\ lastCall'.ValidStartTime = vst
         /\ Cardinality(pre) = 1
         /\ \A i \in pre : /\ rows[i].TransactionDeletionTime = SqlNull
                            /\ rows[i].TransactionInsertionTime < T2)
        =>
        /\ Cardinality(Lineage(MainPatient, l, vst)') = 2
        /\ \A S \in Times, i \in pre :
             /\ (rows[i].TransactionInsertionTime <= S /\ S < T2)
                => /\ LineageHistory(MainPatient, l, vst, S)' = {i}
                   /\ rows'[i].Value = rows[i].Value
             /\ S >= T2
                => /\ LineageHistory(MainPatient, l, vst, S)' = {Len(rows')}
                   /\ rows'[Len(rows')].Value \in MainUpdateValues
                   /\ rows'[Len(rows')].Value # rows[i].Value
      ]_vars

C4_Witness ==
    /\ lastCall.op = "update" /\ lastCall.result = "OK"
    /\ LET lin == Lineage(lastCall.PatientId, lastCall.LoincNum,
                          lastCall.ValidStartTime)
       IN /\ Cardinality(lin) = 2
          /\ \E i, j \in lin :
                /\ rows[i].TransactionInsertionTime < rows[j].TransactionInsertionTime
                /\ rows[i].TransactionDeletionTime = lastCall.T
                /\ rows[j].TransactionInsertionTime = lastCall.T
                /\ LineageHistory(lastCall.PatientId, lastCall.LoincNum,
                                  lastCall.ValidStartTime, lastCall.T) = {j}

\* C5: after a successful Delete at D, the history at snapshot D does not
\* return the deleted row and the history at D minus one second does (D
\* ranging over the instants whose preceding second is a modelled instant).
C5_DeleteBoundary ==
    [][\A D \in Times \ {0} :
        (/\ lastCall'.op = "delete" /\ lastCall'.result = "OK"
         /\ rows' # rows
         /\ lastCall'.PatientId = MainPatient /\ lastCall'.T = D)
        => \A i \in DOMAIN rows :
             rows'[i] # rows[i]
             => /\ i \notin History(MainPatient, Dt(D))'
                /\ i \in History(MainPatient, Dt(D - 1))'
      ]_vars

\* The instant a snapshot argument stands for: the given second, the last
\* second of a date-only day, the current time when omitted.
ClaimInstant(S) ==
    IF S[1] = "none" THEN now
    ELSE IF S[1] = "date" THEN (S[2] + 1) * DayLen - 1
    ELSE S[2]

\* C6: for every patient and snapshot S, the History Query without optional
\* filters returns exactly the patient's rows with TransactionInsertionTime
\* <= S and TransactionDeletionTime NULL or > S.
C6_HistoryExact ==
    \A p \in patients, S \in TimeArgs :
        search_history_error(p, S, NoTime, NoTime) = ""
        => History(p, S) =
             {i \in DOMAIN rows :
                /\ rows[i].PatientId = p
                /\ rows[i].TransactionInsertionTime <= ClaimInstant(S)
                /\ \/ rows[i].TransactionDeletionTime = SqlNull
                   \/ rows[i].TransactionDeletionTime > ClaimInstant(S)}

C6_Witness ==
    \E S \in Times, i, k \in DOMAIN rows :
        /\ i \in History(MainPatient, Dt(S))
        /\ k \notin History(MainPatient, Dt(S))
        /\ rows[k].PatientId = MainPatient
        /\ rows[k].TransactionDeletionTime # SqlNull
        /\ rows[k].TransactionInsertionTime <= S

NaturalKeyVisible(p, l, vst, T) ==
    \E i \in Lineage(p, l, vst) :
        rows[i].TransactionInsertionTime = T /\ Visible(rows[i], T)

\* C9: an Insert at T is rejected when a row with the same (PatientId,
\* LoincNum, ValidStartTime, TransactionInsertionTime) is visible at T; an
\* accepted Insert appends exactly one row, with TransactionInsertionTime = T
\* and TransactionDeletionTime NULL, and leaves every existing row as it was.
C9_InsertRejectsDuplicate ==
    \A o \in InsertCalls :
        /\ NaturalKeyVisible(o.PatientId, o.LoincNum, o.ValidStartTime, o.T)
           => (o.result = "DuplicateInsert" /\ o.rows = rows)
        /\ o.result = "OK"
           => /\ Len(o.rows) = Len(rows) + 1
              /\ SubSeq(o.rows, 1, Len(rows)) = rows
              /\ LET r == o.rows[Len(o.rows)] IN
                    /\ SameKey(r, o.PatientId, o.LoincNum, o.ValidStartTime)
                    /\ r.TransactionInsertionTime = o.T
                    /\ r.TransactionDeletionTime = SqlNull
        /\ o.result # "OK" => o.rows = rows

C9_Witness ==
    /\ lastCall.op = "insert"
    /\ lastCall.result = "DuplicateInsert"
    /\ \E o \in InsertCalls :
          /\ NaturalKeyVisible(o.PatientId, o.LoincNum, o.ValidStartTime, o.T)
          /\ o.result = "DuplicateInsert"
    /\ \E o \in InsertCalls : o.result = "OK"

NoVisibleRow(o) ==
    /\ o.LoincNum \in LoincCodes
    /\ o.T # NoMatch
    /\ ~check_record(o.PatientId, o.LoincNum, o.ValidStartTime, o.T)

UpdateCallsByLoincOnly ==
    {update_measurement(MainPatient, vst, v, c[1], c[2], T, fail, u) :
        vst \in MainVsts, v \in MainUpdateValues,
        c \in {x \in MainConcepts : Falsy(x[1])},
        T \in MainTimeArgs, fail \in {0, 2}, u \in MainUnits}

DeleteCallsByLoincOnly ==
    {delete_measurement(MainPatient, vst, c[2], c[1], D, 0) :
        vst \in MainVsts, c \in {x \in MainConcepts : x[1] = ""},
        D \in MainTimeArgs}

VisibleOnDay(p, l, day, D) ==
    {i \in DOMAIN rows :
        /\ rows[i].PatientId = p
        /\ rows[i].LoincNum = l
        /\ DayOf(rows[i].ValidStartTime) = day
        /\ Visible(rows[i], D)}

ComponentOnlyArgs ==
    {<<c, l>> : c \in {"glucose", "glucose urine", "insulin"}, l \in {PyNone, ""}}

ResolverErrors ==
    {"UnknownComponent", "AmbiguousComponent", "LoincMismatch",
     "LoincCodeNotFound", "InvalidInput"}

\* What the resolver owes a component-only call whose scope holds `matching`.
ResolvedWithin(o, matching) ==
    IF matching = {} THEN o.result = "UnknownComponent"
    ELSE IF Cardinality(matching) > 1 THEN o.result = "AmbiguousComponent"
    ELSE o.result \notin ResolverErrors /\ o.LoincNum \in matching

\* C12: a call that gives only a component resolves it in its scope, the LOINC
\* dictionary for Insert and the patient's rows of the ValidStartTime visible
\* at the transaction time for Update and Delete: no match is
\* UnknownComponent, several matches are AmbiguousComponent, and a single
\* match is used as the LoincNum.
C12_ComponentOnlyResolution ==
    \A a \in ComponentOnlyArgs, vst \in MainVsts, T \in DtArgs :
        LET scope == get_loinc_by_component_from_measurements(
                         a[1], MainPatient, validate_datetime(vst),
                         validate_datetime(T))
        IN
        /\ \A v \in MainInsertValues, u \in MainUnits :
              ResolvedWithin(
                  insert_measurement(MainPatient, vst, v, u, a[1], a[2], T, 0),
                  get_loinc_by_component_from_loinc(a[1]))
        /\ \A v \in MainUpdateValues, u \in MainUnits :
              ResolvedWithin(
                  update_measurement(MainPatient, vst, v, a[1], a[2], T, 0, u),
                  scope)
        /\ ResolvedWithin(
              delete_measurement(MainPatient, vst, a[2], a[1], T, 0), scope)

VisibleAt(S) ==
    {i \in DOMAIN rows : rows[i].PatientId \in patients /\ Visible(rows[i], S)}

\* C14: a finished AbstractData run has failed when the Patients table is
\* empty, and has succeeded with an empty AbstractedMeasurements when there are
\* patients but none has a row at the snapshot.
C14_AbstractOutcome ==
    (absRun.pc = "idle" /\ absRun.snapshot # NoMatch)
    => /\ patients = {} => absRun.result = "NoPatients"
       /\ (patients # {} /\ VisibleAt(absRun.snapshot) = {})
          => (absRun.result = "OK" /\ abstracted = {})

Merged == mediatorCall.fn = "merge" /\ mediatorCall.done

\* Two intervals share an instant.
ShareInstant(a, b) ==
    a.StartDateTime <= b.EndDateTime /\ b.StartDateTime <= a.EndDateTime

\* C15: in the output of the merge no two intervals of the same (LoincCode,
\* Value) overlap or touch.
C15_SameLabelDisjoint ==
    Merged =>
        \A i, j \in DOMAIN mediatorCall.output :
            LET a == mediatorCall.output[i]
                b == mediatorCall.output[j]
            IN (i # j /\ a.LoincCode = b.LoincCode /\ a.Value = b.Value)
               => ~ShareInstant(a, b)

\* C16: in the output of the merge, of two intervals of one LoincCode with
\* different Values the earlier ends no later than the later starts.
C16_LabelsDoNotOverlap ==
    Merged =>
        \A i, j \in DOMAIN mediatorCall.output :
            LET a == mediatorCall.output[i]
                b == mediatorCall.output[j]
            IN (i < j /\ a.LoincCode = b.LoincCode /\ a.Value # b.Value)
               => /\ a.StartDateTime <= b.StartDateTime
                  /\ a.EndDateTime <= b.StartDateTime

\* An earlier interval was cut back: two input intervals of one code with
\* different labels overlap, and the output keeps both labels.
C16_Witness ==
    /\ Merged
    /\ \E i, j \in DOMAIN mediatorCall.input :
          LET a == mediatorCall.input[i]
              b == mediatorCall.input[j]
          IN /\ a.LoincCode = b.LoincCode
             /\ a.Value # b.Value
             /\ a.StartDateTime < b.StartDateTime
             /\ b.StartDateTime < a.EndDateTime + Relevance
    /\ \E i, j \in DOMAIN mediatorCall.output :
          LET a == mediatorCall.output[i]
              b == mediatorCall.output[j]
          IN /\ i < j
             /\ a.LoincCode = b.LoincCode
             /\ a.Value # b.Value
             /\ a.EndDateTime = b.StartDateTime

\* The largest End + relevance among the intervals a..b of the ordered input E.
RunEnd(E, a, b) ==
    LET ends == {E[j].EndDateTime + Relevance : j \in a..b} IN
    CHOOSE m \in ends : \A x \in ends : x <= m

\* The intervals a..b of E share LoincCode and Value and each starts no later
\* than the running merged end of those before it.
IsRun(E, a, b) ==
    /\ a <= b
    /\ \A k \in (a + 1)..b :
          /\ E[k].LoincCode = E[a].LoincCode
          /\ E[k].Value = E[a].Value
          /\ E[k].StartDateTime <= RunEnd(E, a, k - 1)

MaximalRun(E, a, b) ==
    /\ IsRun(E, a, b)
    /\ \A c \in 1..(a - 1) : ~IsRun(E, c, b)
    /\ \A c \in (b + 1)..Len(E) : ~IsRun(E, a, c)

MaximalRuns(E) ==
    {r \in (DOMAIN E) \X (DOMAIN E) : MaximalRun(E, r[1], r[2])}

\* The interval of another label that follows the run a..b in its code and
\* starts before the run's end.
CutShort(E, a, b) ==
    /\ b < Len(E)
    /\ E[b + 1].LoincCode = E[a].LoincCode
    /\ E[b + 1].StartDateTime < RunEnd(E, a, b)

Emitted(E, a, e) ==
    Interval(E[a].LoincCode, E[a].Value, E[a].StartDateTime, e)

OutputIntervals ==
    {mediatorCall.output[i] : i \in DOMAIN mediatorCall.output}

\* C17 as stated: every run of the input, taken in (LoincCode, Start, Value)
\* order, is emitted as one interval from the run's earliest Start to the
\* largest End + relevance of the run.
C17_RunMergedToMaxEnd ==
    Merged =>
        LET E == sort_values(mediatorCall.input)
            runs == MaximalRuns(E)
        IN  /\ Len(mediatorCall.output) = Cardinality(runs)
            /\ \A r \in runs :
                  Emitted(E, r[1], RunEnd(E, r[1], r[2])) \in OutputIntervals

\* C17 amended: every run of the input, taken in (LoincCode, Start, Value)
\* order, is emitted as one interval from the run's earliest Start to the
\* largest End + relevance of the run, or to the Start of the next ordered
\* interval when that interval has the same LoincCode and starts before that
\* end.
C17_RunMergedUnlessCut ==
    Merged =>
        LET E == sort_values(mediatorCall.input)
            runs == MaximalRuns(E)
        IN  /\ Len(mediatorCall.output) = Cardinality(runs)
            /\ \A r \in runs :
                  Emitted(E, r[1],
                          IF CutShort(E, r[1], r[2])
                          THEN E[r[2] + 1].StartDateTime
                          ELSE RunEnd(E, r[1], r[2])) \in OutputIntervals

\* Two readings of one label were merged into one interval that reaches past
\* the later reading's own end by the relevance.
C17_Witness ==
    /\ Merged
    /\ Len(mediatorCall.input) = 2
    /\ Len(mediatorCall.output) = 1
    /\ mediatorCall.input[1].StartDateTime < mediatorCall.input[2].StartDateTime
    /\ mediatorCall.output[1].StartDateTime = mediatorCall.input[1].StartDateTime
    /\ mediatorCall.output[1].EndDateTime =
          mediatorCall.input[2].EndDateTime + Relevance

Applied == mediatorCall.fn = "apply" /\ mediatorCall.done

\* The thresholds of the call's rule, by position, whose range holds val.
InRange(val) ==
    {k \in DOMAIN mediatorCall.rule.rules :
        LET t == mediatorCall.rule.rules[k] IN
        /\ (t.min = NoBound \/ val >= t.min)
        /\ (t.max = NoBound \/ val < t.max)}

\* The raw rows of the rule's LoincCode, by index, with a threshold in range.
Classified ==
    {i \in DOMAIN mediatorCall.raw_df :
        /\ mediatorCall.raw_df[i].LoincNum = mediatorCall.rule.loinc_code
        /\ InRange(mediatorCall.raw_df[i].Value) # {}}

\* C18: every raw row of the rule's LoincCode with a threshold in range gets
\* the interval [ValidStartTime - GoodBefore, ValidStartTime + GoodAfter]
\* labelled by the first such threshold and is marked consumed; nothing else
\* is emitted and no other row is marked consumed.
C18_FirstThresholdLabels ==
    Applied =>
        LET out == mediatorCall.output
            emitted == {out.abstracted[n] : n \in DOMAIN out.abstracted}
        IN /\ out.used_indices = Classified
           /\ Len(out.abstracted) = Cardinality(Classified)
           /\ \A i \in Classified :
                 LET row == mediatorCall.raw_df[i]
                     first == CHOOSE k \in InRange(row.Value) :
                                  \A j \in InRange(row.Value) : k <= j
                 IN Interval(mediatorCall.rule.loinc_code,
                             mediatorCall.rule.rules[first].label,
                             row.ValidStartTime - GoodBefore,
                             row.ValidStartTime + GoodAfter) \in emitted

\* One frame holds a row that two thresholds fit, labelled by the first, and
\* a row of the rule's code that no threshold fits, left unconsumed.
C18_Witness ==
    /\ Applied
    /\ \E i, j \in DOMAIN mediatorCall.raw_df :
          /\ mediatorCall.raw_df[i].LoincNum = mediatorCall.rule.loinc_code
          /\ mediatorCall.raw_df[j].LoincNum = mediatorCall.rule.loinc_code
          /\ Cardinality(InRange(mediatorCall.raw_df[i].Value)) = 2
          /\ InRange(mediatorCall.raw_df[j].Value) = {}
          /\ mediatorCall.output.used_indices = {i}
          /\ mediatorCall.output.abstracted[1].Value = Labels[1]

AppliedRule(logic_type) ==
    /\ ruleCall.fn = "apply_rule"
    /\ ruleCall.done
    /\ ruleCall.rule_json.logic_type = logic_type

\* The pairs of the call's k-th condition.
PairsOf(k) ==
    LET cond == ruleCall.rule_json.rules[k].condition IN
    {cond[n] : n \in DOMAIN cond}

IsNull(param) == ruleCall.input_values[param] = PyNone

\* The input of the pair's parameter is non-null and in the pair's list.
Member(pair) ==
    ~IsNull(pair[1]) /\ ruleCall.input_values[pair[1]] \in pair[2]

AllMatch(k) == \A pair \in PairsOf(k) : Member(pair)

AnyMatch(k) == \E pair \in PairsOf(k) : Member(pair)

ValueOfCondition(k) ==
    ruleCall.rule_json.values[ruleCall.rule_json.rules[k].cond_id]

\* AND returns the value of the first condition all of whose pairs match,
\* and FallbackValue when there is none.
FirstMatchWins ==
    LET matching == {k \in DOMAIN ruleCall.rule_json.rules : AllMatch(k)} IN
    ruleCall.output =
        IF matching = {} THEN FallbackValue
        ELSE ValueOfCondition(CHOOSE k \in matching :
                                 \A j \in matching : k <= j)

\* C19 as stated: AND returns the value of the first condition all of whose
\* pairs match, else FallbackValue; and when a parameter required by a
\* condition is null, the result is FallbackValue unless an earlier condition
\* matches.
C19_NullGivesFallbackUnlessEarlier ==
    AppliedRule("AND") =>
        /\ FirstMatchWins
        /\ \A k \in DOMAIN ruleCall.rule_json.rules :
              (\E pair \in PairsOf(k) : IsNull(pair[1]))
              => \/ ruleCall.output = FallbackValue
                 \/ \E j \in 1..(k - 1) : AllMatch(j)

\* C19 amended: AND returns the value of the first condition all of whose
\* pairs match, else FallbackValue; and when a parameter required by a
\* condition is null, the result is FallbackValue unless another condition,
\* earlier or later, matches.
C19_NullGivesFallbackUnlessOther ==
    AppliedRule("AND") =>
        /\ FirstMatchWins
        /\ \A k \in DOMAIN ruleCall.rule_json.rules :
              (\E pair \in PairsOf(k) : IsNull(pair[1]))
              => \/ ruleCall.output = FallbackValue
                 \/ \E j \in DOMAIN ruleCall.rule_json.rules :
                       j # k /\ AllMatch(j)

\* The first condition requires a parameter that is null, the second requires
\* only one that is present and allowed, and the second's value is returned.
C19_Witness ==
    /\ AppliedRule("AND")
    /\ Len(ruleCall.rule_json.rules) = 2
    /\ \E pair \in PairsOf(1) : IsNull(pair[1])
    /\ PairsOf(2) # {}
    /\ AllMatch(2)
    /\ ruleCall.output = ValueOfCondition(2)

\* The call's rule with the pairs of every condition listed in reverse.
RECURSIVE Reverse(_)
Reverse(seq) ==
    IF seq = <<>> THEN <<>> ELSE Append(Reverse(Tail(seq)), Head(seq))

PairsReversed ==
    [ruleCall.rule_json EXCEPT
        !.rules = [k \in DOMAIN ruleCall.rule_json.rules |->
                      [ruleCall.rule_json.rules[k] EXCEPT
                          !.condition = Reverse(@)]]]

\* C20: OR returns the value of the last condition, in document order, with
\* at least one matching pair, and FallbackValue when there is none; listing
\* the pairs of the conditions in another order gives the same result.
C20_HighestMatchWins ==
    AppliedRule("OR") =>
        LET matching == {k \in DOMAIN ruleCall.rule_json.rules : AnyMatch(k)}
        IN /\ ruleCall.output =
                 IF matching = {} THEN FallbackValue
                 ELSE ValueOfCondition(CHOOSE k \in matching :
                                          \A j \in matching : j <= k)
           /\ ruleCall.output =
                 apply_OR_rule(PairsReversed, ruleCall.input_values)

\* Two conditions both have a matching pair, the second also a pair that
\* does not match, and the second condition's value is returned.
C20_Witness ==
    /\ AppliedRule("OR")
    /\ Len(ruleCall.rule_json.rules) = 2
    /\ AnyMatch(1)
    /\ AnyMatch(2)
    /\ ~AllMatch(2)
    /\ ruleCall.output = ValueOfCondition(2)

OneIdentifierArgs == {<<PyNone, "L1">>, <<"glucose", PyNone>>}

\* C27: a Delete that gives only a LoincNum or only a component, aimed at a
\* row visible at DeletionTime with no later version, resolves the concept as
\* the Update with the same arguments does, raises no resolution error that
\* Update does not raise, and succeeds when it gives only the LoincNum.
C27_DeleteResolvesAsUpdate ==
    \A a \in OneIdentifierArgs, vst \in MainVsts, D \in DtArgs :
        LET v == validate_datetime(vst)
            T == validate_datetime(D)
            del == delete_measurement(MainPatient, vst, a[2], a[1], D, 0)
            upd == update_measurement(MainPatient, vst, "11", a[1], a[2], D,
                                      0, "u1")
        IN (/\ check_record(MainPatient, "L1", v, T)
            /\ ~check_future_record(MainPatient, "L1", v, T))
           => /\ del.result \in ResolverErrors => upd.result = del.result
              /\ del.result \notin ResolverErrors => del.LoincNum = upd.LoincNum
              /\ a[1] = PyNone => del.result = "OK"

\* The errors raised by the checks of the four operations.
CheckErrors ==
    {"InvalidInput", "PatientNotFound", "AlreadyExists", "UnknownComponent",
     "AmbiguousComponent", "LoincMismatch", "LoincCodeNotFound",
     "DateOrderViolation", "DuplicateInsert", "RecordNotFound", "StaleUpdate"}

\* C30: a call that returns one of the check errors leaves the Patients and
\* Measurements tables exactly as they were before the call.
C30_ErrorsWriteNothing ==
    [][(lastCall' # lastCall /\ lastCall'.result \in CheckErrors)
       => (rows' = rows /\ patients' = patients)]_vars

\* Every kind of check error has been returned by some call on a store that
\* holds a row: here a stale update.
C30_Witness ==
    /\ lastCall.op = "update"
    /\ lastCall.result = "StaleUpdate"
    /\ rows # <<>>
    /\ "P2" \in patients

\* What a snapshot shows of a row: everything but its deletion stamp.
Shown(r) == [r EXCEPT !.TransactionDeletionTime = SqlNull]

\* C28: a successful Insert, Update or Delete at T leaves every snapshot
\* S < T as it was: the same rows are visible at S, with the same key, value,
\* unit and insertion time.
C28_PastSnapshotsStable ==
    [][(lastCall'.result = "OK" /\ rows' # rows)
       => \A T \in Times, S \in Times :
            (lastCall'.T = T /\ S < T)
            => \A i \in DOMAIN rows' :
                  IF i \in DOMAIN rows
                  THEN /\ Visible(rows'[i], S) <=> Visible(rows[i], S)
                       /\ Shown(rows'[i]) = Shown(rows[i])
                  ELSE ~Visible(rows'[i], S)]_vars

\* An Update or Delete at T >= 1 has closed a row that was inserted before T,
\* so a snapshot before T showed it.
C28_Witness ==
    /\ lastCall.op \in {"update", "delete"}
    /\ lastCall.result = "OK"
    /\ \E i \in DOMAIN rows :
          /\ rows[i].TransactionInsertionTime < lastCall.T
          /\ rows[i].TransactionDeletionTime = lastCall.T

\* C29: at every snapshot S at most one row of a (PatientId, LoincNum,
\* ValidStartTime) is visible.
C29_OneVisiblePerKey ==
    \A S \in Times, i, j \in DOMAIN rows :
        (/\ i # j
         /\ SameKey(rows[i], rows[j].PatientId, rows[j].LoincNum,
                    rows[j].ValidStartTime)
         /\ Visible(rows[i], S))
        => ~Visible(rows[j], S)

Searched == ruleCall.fn = "search_param" /\ ruleCall.done

Running == ruleCall.fn = "run"

DeclarativeOrders == orders_of(ruleCall.listing.declarative_knowledge)

ProceduralOrders == orders_of(ruleCall.listing.procedural_knowledge)

\* C23: construction fails whenever both tiers contain rules and some
\* procedural ExecutionOrder is at most some declarative one (that is, the
\* least procedural is <= the greatest declarative); it does not fail on this
\* ground when either tier is empty; after a successful construction every
\* procedural rule has a strictly greater ExecutionOrder than every
\* declarative rule.
C23_HierarchyEnforced ==
    (Running /\ ruleCall.phase # "new") =>
        /\ (\E p \in ProceduralOrders : \E d \in DeclarativeOrders : p <= d)
              => ruleCall.phase = "invalid"
        /\ (ProceduralOrders = {} \/ DeclarativeOrders = {})
              => ruleCall.phase # "invalid"
        /\ ruleCall.phase # "invalid"
              => \A p \in ProceduralOrders : \A d \in DeclarativeOrders : p > d

\* Construction failed for a folder whose least procedural order equals its
\* greatest declarative order.
C23_Witness ==
    /\ Running
    /\ ruleCall.phase = "invalid"
    /\ Len(ruleCall.listing.declarative_knowledge) = 2
    /\ ProceduralOrders = {2}
    /\ DeclarativeOrders = {1, 2}

IsDeclarative(rule_json) ==
    \E n \in DOMAIN ruleCall.listing.declarative_knowledge :
        ruleCall.listing.declarative_knowledge[n] = rule_json

ListedRules ==
    {ruleCall.listing.declarative_knowledge[n] :
        n \in DOMAIN ruleCall.listing.declarative_knowledge}
    \cup {ruleCall.listing.procedural_knowledge[n] :
              n \in DOMAIN ruleCall.listing.procedural_knowledge}

\* The items of a list with ";" between them, built from the left.
JoinedText(items) ==
    LET text[n \in 0..Len(items)] ==
            IF n = 0 THEN ""
            ELSE IF n = 1 THEN items[1]
            ELSE text[n - 1] \o ";" \o items[n]
    IN text[Len(items)]

TextOf(value) ==
    IF value.type = "list" THEN JoinedText(value.items) ELSE value.text

Outputs(rule_json) ==
    {rule_json.values[k] : k \in DOMAIN rule_json.values}
    \cup {rule_json.fallback_value}

FilesOf(listed) == {listed[n] : n \in DOMAIN listed}

\* The listings that hold the same rule files in another order.
Reorderings(listing) ==
    {other \in Listings :
        \A tier \in DOMAIN listing :
            FilesOf(other[tier]) = FilesOf(listing[tier])}

MediatorRan == mediatorCall.fn = "run" /\ mediatorCall.done

\* The rows of the frame that some applicable rule classifies.
ClassifiedRows(raw_df, params, tak_rules) ==
    {i \in DOMAIN raw_df :
        \E n \in DOMAIN tak_rules :
            /\ \A key \in DOMAIN tak_rules[n].filters :
                  /\ key \in DOMAIN params
                  /\ Lower(params[key]) = Lower(tak_rules[n].filters[key])
            /\ raw_df[i].LoincNum = tak_rules[n].loinc_code
            /\ \E k \in DOMAIN tak_rules[n].rules :
                  LET t == tak_rules[n].rules[k]
                  IN /\ (t.min = NoBound \/ raw_df[i].Value >= t.min)
                     /\ (t.max = NoBound \/ raw_df[i].Value < t.max)}

\* A frame accounts for the raw rows: each row no applicable rule classifies
\* appears exactly once as a raw record [ValidStartTime, + relevance], and
\* no classified row appears as a raw record.
Accounts(frame, raw_df, params, tak_rules) ==
    LET consumed == ClassifiedRows(raw_df, params, tak_rules)
        raws == {n \in DOMAIN frame : frame[n].Source = "raw"}
    IN /\ Cardinality(raws) = Len(raw_df) - Cardinality(consumed)
       /\ \A i \in (DOMAIN raw_df) \ consumed :
             Cardinality({n \in raws :
                 /\ frame[n].LoincCode = raw_df[i].LoincNum
                 /\ frame[n].Value = raw_df[i].Value
                 /\ frame[n].StartDateTime = raw_df[i].ValidStartTime
                 /\ frame[n].EndDateTime
                       = raw_df[i].ValidStartTime + Relevance}) = 1
       /\ (consumed # {}) =>
             \E n \in DOMAIN frame : frame[n].Source = "abstracted"

\* C26: a run for a patient with visible raw rows returns a frame that
\* accounts for every row: rows classified by an applicable rule only as
\* abstracted intervals, every other row once as a raw interval.
C26_RowsAccounted ==
    (MediatorRan /\ mediatorCall.raw_df # <<>>) =>
        /\ mediatorCall.raised = ""
        /\ Accounts(mediatorCall.output, mediatorCall.raw_df,
                    mediatorCall.params, mediatorCall.tak_rules)

\* Steps 3 to 7 on their own: given the raw rows and the parameters, the
\* rows consumed are exactly the classified ones and every frame sorted by
\* start accounts for the rows.
RunStepsAccount ==
    (mediatorCall.fn = "run") =>
        LET out == run_steps(mediatorCall.raw_df, mediatorCall.params,
                             mediatorCall.tak_rules)
        IN /\ Accounts(out.frame, mediatorCall.raw_df, mediatorCall.params,
                       mediatorCall.tak_rules)
           /\ {mediatorCall.raw_df[i].name :
                  i \in ClassifiedRows(mediatorCall.raw_df,
                                       mediatorCall.params,
                                       mediatorCall.tak_rules)}
                = out.used_indices

====
